---------------------------- MODULE Spec2Model ----------------------------
(***************************************************************************)
(* Front end of the Stable compiler (stable-lang/stlang): the position     *)
(* registry (token.FileSet / token.File), the token catalog, the lexer and *)
(* the parser driver, modelled as state machines.                          *)
(*                                                                         *)
(* Source bytes are one-character strings; a literal is a sequence of      *)
(* bytes.  Token values are the names of the Go constants; TokenNames      *)
(* gives their order in the enumeration.                                   *)
(***************************************************************************)
EXTENDS Integers, Sequences, FiniteSets, TLC

VARIABLES
    fset,    \* registry: the token.FileSet [base, files, last]
    fsOp,    \* registry: the last call made on the registry and its result
    text,    \* lexer, parser: the bytes of the source text
    lx,      \* lexer: the Lexer, with its File and what its handler received
    out,     \* lexer: what the last Scan call returned, and the flag, offset
             \* and deferred position it was called with
    trace,   \* lexer: the tokens returned so far, up to the first EOF
    lexRun,  \* parser: the lexer of the source and the results of its Scan calls
    ps       \* parser: the ParseFile call under way: where it is (pc), its
             \* arguments, its parser p, its local variables and its results

vars == <<fset, fsOp, text, lx, out, trace, lexRun, ps>>

fsVars == <<fset, fsOp>>
lexVars == <<text, lx, out, trace>>
parseVars == <<lexRun, ps>>

-----------------------------------------------------------------------------
(* Bounds of the model.                                                    *)

MaxFiles == 3      \* files added to one registry
MaxSize == 2       \* largest file size passed to AddFile
MaxGap == 1        \* an explicit base lies at most this far above next_base
MaxSrcLen == 4     \* length of the source texts built from LexAlphabet

-----------------------------------------------------------------------------
(* Small helpers on sequences.                                             *)

Range(s) == {s[i] : i \in 1..Len(s)}

Last(s) == s[Len(s)]

\* Let([v \in {e} |-> body]) is body with v standing for the value of e,
\* which is computed once, before body.
Let(f) == CHOOSE r \in {g[CHOOSE v \in DOMAIN g : TRUE] : g \in {f}} : TRUE

-----------------------------------------------------------------------------
(* token.Pos and token.FileSet (src/token/fileset.go).                     *)

NoPos == 0

\* FileSet.last and the results of File() are pointers: 0 is nil, i > 0 is
\* the i-th file added.
NilFile == 0

NewFileSet == [base |-> 1, files |-> <<>>, last |-> NilFile]

\* slices.BinarySearchFunc(a, x, cmp(a.base, x)): the smallest index i
\* (0-based) in [lo, hi) with a[i].base >= x, by bisection.
RECURSIVE BinarySearchBase(_, _, _, _)
BinarySearchBase(a, x, lo, hi) ==
    IF lo >= hi THEN lo
    ELSE LET h == (lo + hi) \div 2
         IN  IF a[h + 1].base < x
             THEN BinarySearchBase(a, x, h + 1, hi)
             ELSE BinarySearchBase(a, x, lo, h)

\* searchFiles(a, x): 0-based index of the last file with base <= x, or -1.
searchFiles(a, x) ==
    LET i == BinarySearchBase(a, x, 0, Len(a))
        found == i < Len(a) /\ a[i + 1].base = x
    IN  IF found THEN i ELSE i - 1

\* FileSet.file(p): [s |-> the file set afterwards, f |-> the file found].
lastHitNoUpperBound(f, p) == f.base <= p

lastHit(f, p) == f.base <= p /\ p <= f.base + f.size

fileOf(s, p) ==
    IF s.last # NilFile /\ lastHit(s.files[s.last], p)
    THEN [s |-> s, f |-> s.last]
    ELSE LET i == searchFiles(s.files, p)
         IN  IF i >= 0 /\ p <= s.files[i + 1].base + s.files[i + 1].size
             THEN [s |-> [s EXCEPT !.last = i + 1], f |-> i + 1]
             ELSE [s |-> s, f |-> NilFile]

\* FileSet.File(p).
FileSetFile(s, p) ==
    IF p = NoPos THEN [s |-> s, f |-> NilFile] ELSE fileOf(s, p)

\* FileSet.AddFile(filename, base, size): [s |-> the file set afterwards,
\* f |-> the file created, panic |-> the panic raised or "" ].
newBaseNoEOF(base, size) == base + size

newBase(base, size) == base + size + 1

\* The largest Go int: base + size + 1 wraps to a negative number exactly
\* when it exceeds MaxInt (the value of a build with 32-bit int).
MaxInt == 2147483647

\* A variant of baseOrNext that takes every base as it is given.
baseAsGiven(s, base0) == base0

\* The base AddFile uses: s.base in place of a negative one.
baseOrNext(s, base0) == IF base0 < 0 THEN s.base ELSE base0

AddFileResult(s, filename, base0, size) ==
    LET base == baseOrNext(s, base0)
    IN  IF base < s.base THEN [s |-> s, f |-> NilFile, panic |-> "invalid base"]
        ELSE IF size < 0 THEN [s |-> s, f |-> NilFile, panic |-> "invalid size"]
        ELSE IF base > MaxInt - size - 1
             THEN [s |-> s, f |-> NilFile, panic |-> "offset overflow"]
        ELSE LET f == [name |-> filename, base |-> base, size |-> size,
                       lines |-> <<0>>]
             IN  [s |-> [base |-> newBase(base, size),
                         files |-> Append(s.files, f),
                         last |-> Len(s.files) + 1],
                  f |-> Len(s.files) + 1,
                  panic |-> ""]

-----------------------------------------------------------------------------
(* token.File (src/token/file.go) and token.Position.  A File is the       *)
(* record [name, base, size, lines].                                       *)

NoPosition == [Filename |-> "", Offset |-> 0, Line |-> 0, Column |-> 0]

\* Position.IsValid.
PositionIsValid(pos) == pos.Line > 0

\* A variant of fixOffset without the upper limit.
fixOffsetBelow(f, offset) == IF offset < 0 THEN 0 ELSE offset

\* File.fixOffset(offset).
fixOffset(f, offset) ==
    IF offset < 0 THEN 0
    ELSE IF offset > f.size THEN f.size
    ELSE offset

\* File.Pos(offset) and File.Offset(p).
FilePos(f, offset) == f.base + fixOffset(f, offset)

FileOffset(f, q) == fixOffset(f, q - f.base)

\* searchInts(a, x): 0-based index of the last entry <= x, or -1.
RECURSIVE searchIntsLoop(_, _, _, _)
searchIntsLoop(a, x, i, j) ==
    IF i < j
    THEN LET h == i + (j - i) \div 2
         IN  IF a[h + 1] <= x
             THEN searchIntsLoop(a, x, h + 1, j)
             ELSE searchIntsLoop(a, x, i, h)
    ELSE i - 1

searchInts(a, x) == searchIntsLoop(a, x, 0, Len(a))

\* File.unpack(offset) and File.position(p).
unpack(f, offset) ==
    LET i == searchInts(f.lines, offset)
    IN  IF i >= 0
        THEN [Filename |-> f.name, Offset |-> offset, Line |-> i + 1,
              Column |-> offset - f.lines[i + 1] + 1]
        ELSE [Filename |-> f.name, Offset |-> offset, Line |-> 0, Column |-> 0]

position(f, q) == unpack(f, fixOffset(f, q - f.base))

\* File.Position(p) and File.Line(p).
FilePosition(f, q) == IF q = NoPos THEN NoPosition ELSE position(f, q)

FileLine(f, q) == FilePosition(f, q).Line

\* A variant of AddLine that does not compare with the line before.
AddLineAny(f, offset) ==
    IF offset < f.size THEN [f EXCEPT !.lines = Append(f.lines, offset)] ELSE f

\* A variant of AddLine that does not compare with the size.
AddLinePastEnd(f, offset) ==
    IF f.lines[Len(f.lines)] < offset
    THEN [f EXCEPT !.lines = Append(f.lines, offset)]
    ELSE f

\* File.AddLine(offset): the file afterwards.
AddLine(f, offset) ==
    LET i == Len(f.lines)
    IN  IF (i = 0 \/ f.lines[i] < offset) /\ offset < f.size
        THEN [f EXCEPT !.lines = Append(f.lines, offset)]
        ELSE f

\* File.LineCount()
LineCount(f) == Len(f.lines)

\* File.LineStart(line): [pos, panic].
LineStart(f, line) ==
    IF line < 1 THEN [pos |-> NoPos, panic |-> "invalid line number (should be >= 1)"]
    ELSE IF line > Len(f.lines)
    THEN [pos |-> NoPos, panic |-> "invalid line number (should be < count)"]
    ELSE [pos |-> f.base + f.lines[line], panic |-> ""]

-----------------------------------------------------------------------------
(* The token catalog (package token).                                      *)

\* The constants of type Token, in the order of the enumeration: the value
\* of a token is its index here, less one.
TokenNames ==
    <<"Illegal", "EOF", "Comment", "literalA", "Ident", "Int",
      "Float", "Char", "String", "literalZ", "operatorA", "Add",
      "Sub", "Mul", "Quo", "Rem", "And", "Or",
      "Xor", "AndNot", "Shl", "Shr", "Concat", "Assign",
      "AddAssign", "SubAssign", "MulAssign", "QuoAssign", "RemAssign", "AndAssign",
      "OrAssign", "XorAssign", "AndNotAssign", "ShlAssign", "ShrAssign", "ConcatAssign",
      "LogicAnd", "LogicOr", "LogicNot", "Equal", "NotEqual", "Less",
      "Greater", "LessEqual", "GreaterEqual", "Define", "Ellipsis", "Comma",
      "Period", "Colon", "Semicolon", "LeftParen", "LeftBrack", "LeftBrace",
      "RightParen", "RightBrack", "RightBrace", "operatorZ", "keywordA", "Any",
      "Bool", "Break", "Case", "Const", "Continue", "Defer",
      "Else", "Fallthrough", "False", "For", "Func", "Goto",
      "If", "Import", "Nil", "Package", "Return", "Struct",
      "Switch", "True", "Typedef", "Var", "Void", "keywordZ",
      "tokenMax">>

TokenValue(t) == CHOOSE i \in 0..(Len(TokenNames) - 1) : TokenNames[i + 1] = t

tokenValue == [t \in Range(TokenNames) |-> TokenValue(t)]

\* The table tokens: the text of each token.
tokens ==
    "Illegal" :> <<"I", "L", "L", "E", "G", "A", "L">>
    @@ "EOF" :> <<"E", "O", "F">>
    @@ "Comment" :> <<"C", "O", "M", "M", "E", "N", "T">>
    @@ "Ident" :> <<"I", "D", "E", "N", "T">>
    @@ "Int" :> <<"I", "N", "T">>
    @@ "Float" :> <<"F", "L", "O", "A", "T">>
    @@ "Char" :> <<"C", "H", "A", "R">>
    @@ "String" :> <<"S", "T", "R", "I", "N", "G">>
    @@ "Add" :> <<"+">>
    @@ "Sub" :> <<"-">>
    @@ "Mul" :> <<"*">>
    @@ "Quo" :> <<"/">>
    @@ "Rem" :> <<"%">>
    @@ "And" :> <<"&">>
    @@ "Or" :> <<"|">>
    @@ "Xor" :> <<"^">>
    @@ "AndNot" :> <<"&", "^">>
    @@ "Shl" :> <<"<", "<">>
    @@ "Shr" :> <<">", ">">>
    @@ "Concat" :> <<"+", "+">>
    @@ "Assign" :> <<"=">>
    @@ "AddAssign" :> <<"+", "=">>
    @@ "SubAssign" :> <<"-", "=">>
    @@ "MulAssign" :> <<"*", "=">>
    @@ "QuoAssign" :> <<"/", "=">>
    @@ "RemAssign" :> <<"%", "=">>
    @@ "AndAssign" :> <<"&", "=">>
    @@ "OrAssign" :> <<"|", "=">>
    @@ "XorAssign" :> <<"^", "=">>
    @@ "AndNotAssign" :> <<"&", "^", "=">>
    @@ "ShlAssign" :> <<"<", "<", "=">>
    @@ "ShrAssign" :> <<">", ">", "=">>
    @@ "ConcatAssign" :> <<"+", "+", "=">>
    @@ "LogicAnd" :> <<"&", "&">>
    @@ "LogicOr" :> <<"|", "|">>
    @@ "LogicNot" :> <<"!">>
    @@ "Equal" :> <<"=", "=">>
    @@ "NotEqual" :> <<"!", "=">>
    @@ "Less" :> <<"<">>
    @@ "Greater" :> <<">">>
    @@ "LessEqual" :> <<"<", "=">>
    @@ "GreaterEqual" :> <<">", "=">>
    @@ "Define" :> <<":", "=">>
    @@ "Ellipsis" :> <<".", ".", ".">>
    @@ "Comma" :> <<",">>
    @@ "Period" :> <<".">>
    @@ "Colon" :> <<":">>
    @@ "Semicolon" :> <<";">>
    @@ "LeftParen" :> <<"(">>
    @@ "LeftBrack" :> <<"[">>
    @@ "LeftBrace" :> <<"{">>
    @@ "RightParen" :> <<")">>
    @@ "RightBrack" :> <<"]">>
    @@ "RightBrace" :> <<"}">>
    @@ "Any" :> <<"a", "n", "y">>
    @@ "Bool" :> <<"b", "o", "o", "l">>
    @@ "Break" :> <<"b", "r", "e", "a", "k">>
    @@ "Case" :> <<"c", "a", "s", "e">>
    @@ "Const" :> <<"c", "o", "n", "s", "t">>
    @@ "Continue" :> <<"c", "o", "n", "t", "i", "n", "u", "e">>
    @@ "Defer" :> <<"d", "e", "f", "e", "r">>
    @@ "Else" :> <<"e", "l", "s", "e">>
    @@ "Fallthrough" :> <<"f", "a", "l", "l", "t", "h", "r", "o", "u", "g", "h">>
    @@ "False" :> <<"f", "a", "l", "s", "e">>
    @@ "For" :> <<"f", "o", "r">>
    @@ "Func" :> <<"f", "u", "n", "c">>
    @@ "Goto" :> <<"g", "o", "t", "o">>
    @@ "If" :> <<"i", "f">>
    @@ "Import" :> <<"i", "m", "p", "o", "r", "t">>
    @@ "Nil" :> <<"n", "i", "l">>
    @@ "Package" :> <<"p", "a", "c", "k", "a", "g", "e">>
    @@ "Return" :> <<"r", "e", "t", "u", "r", "n">>
    @@ "Struct" :> <<"s", "t", "r", "u", "c", "t">>
    @@ "Switch" :> <<"s", "w", "i", "t", "c", "h">>
    @@ "True" :> <<"t", "r", "u", "e">>
    @@ "Typedef" :> <<"t", "y", "p", "e", "d", "e", "f">>
    @@ "Var" :> <<"v", "a", "r">>
    @@ "Void" :> <<"v", "o", "i", "d">>

\* Token.String(), for the tokens of the table.
TokenString(t) == IF t \in DOMAIN tokens THEN tokens[t] ELSE <<>>

\* Token.IsLiteral, Token.IsOperator, Token.IsKeyword.
IsLiteral(t) ==
    tokenValue["literalA"] < tokenValue[t] /\ tokenValue[t] < tokenValue["literalZ"]

IsOperator(t) ==
    tokenValue["operatorA"] < tokenValue[t] /\ tokenValue[t] < tokenValue["operatorZ"]

\* A variant of IsKeywordToken that takes in the marker keywordA.
IsKeywordTokenFrom(t) ==
    tokenValue["keywordA"] <= tokenValue[t] /\ tokenValue[t] < tokenValue["keywordZ"]

IsKeywordToken(t) ==
    tokenValue["keywordA"] < tokenValue[t] /\ tokenValue[t] < tokenValue["keywordZ"]

\* The tokens init() enters into the map keywords:
\* for i := Any + 1; i < Void; i++.
keywordTokens ==
    {t \in Range(TokenNames) :
        tokenValue["Any"] + 1 <= tokenValue[t] /\ tokenValue[t] < tokenValue["Void"]}

\* The map keywords, as the set of its keys and the token of a key.
keywordTexts == {tokens[t] : t \in keywordTokens}

keywordOf(name) == CHOOSE t \in keywordTokens : tokens[t] = name

\* IsKeyword(name) and Lookup(ident).
IsKeyword(name) == name \in keywordTexts

Lookup(ident) == IF ident \in keywordTexts THEN keywordOf(ident) ELSE "Ident"

\* A variant of IsIdentifier that does not ask for keywords.
IsIdentifierAnyWord(name) ==
    /\ name # <<>>
    /\ \A i \in 1..Len(name) :
         \/ name[i] \in {"_"}
         \/ \E c \in 1..26 : name[i] \in {SubSeq("abcdefghijklmnopqrstuvwxyz", c, c),
                                           SubSeq("ABCDEFGHIJKLMNOPQRSTUVWXYZ", c, c)}
         \/ i # 1 /\ \E c \in 1..10 : name[i] = SubSeq("0123456789", c, c)

\* IsIdentifier(name): the name is not empty and no keyword of the map, and
\* each character is a letter of a-z or A-Z, a digit when it is not the
\* first, or an underscore.  A byte of 0x80 and above is none of these, and
\* so is every rune that holds one.
IsIdentifier(name) ==
    /\ name # <<>>
    /\ ~IsKeyword(name)
    /\ \A i \in 1..Len(name) :
         \/ name[i] \in {"_"}
         \/ \E c \in 1..26 : name[i] \in {SubSeq("abcdefghijklmnopqrstuvwxyz", c, c),
                                           SubSeq("ABCDEFGHIJKLMNOPQRSTUVWXYZ", c, c)}
         \/ i # 1 /\ \E c \in 1..10 : name[i] = SubSeq("0123456789", c, c)

-----------------------------------------------------------------------------
(* Characters.  A source byte below 0x80 is the one-character string of    *)
(* its ASCII character (NUL is "x00", the back quote "x60"); 0xEF, 0xBB,   *)
(* 0xBF, 0xFE and 0xFF are "xEF", "xBB", "xBF", "xFE" and "xFF".  A rune   *)
(* (Lexer.ch) is an ASCII character, "eof" (-1), or "U+FEFF" and the like  *)
(* for a decoded multi-byte rune.                                          *)

\* The characters of a string.
Chars(s) == [i \in 1..Len(s) |-> SubSeq(s, i, i)]

\* The ASCII characters 0x20 to 0x7E in order.
AsciiPrintable ==
    Chars(" !\"#$%&'()*+,-./0123456789:;<=>?@ABCDEFGHIJKLMNOPQRSTUVWXYZ[\\]^_")
    \o <<"x60">> \o Chars("abcdefghijklmnopqrstuvwxyz{|}~")

HexDigits == Chars("0123456789ABCDEF")

LowerLetters == <<"a", "b", "c", "d", "e", "f", "g", "h", "i", "j", "k", "l", "m", "n", "o", "p", "q", "r", "s", "t", "u", "v", "w", "x", "y", "z">>

UpperLetters == <<"A", "B", "C", "D", "E", "F", "G", "H", "I", "J", "K", "L", "M", "N", "O", "P", "Q", "R", "S", "T", "U", "V", "W", "X", "Y", "Z">>

Decimals == <<"0", "1", "2", "3", "4", "5", "6", "7", "8", "9">>

BackQuote == "x60"

eof == "eof"
bom == "U+FEFF"
RuneError == "U+FFFD"

HighBytes == {"xEF", "xBB", "xBF", "xFE", "xFF"}

ContinuationBytes == {"xBB", "xBF"}

IndexOf(seq, c) == CHOOSE i \in 1..Len(seq) : seq[i] = c

LetterSet == Range(LowerLetters) \cup Range(UpperLetters) \cup {"_"}

DecimalSet == Range(Decimals)

HexSet == DecimalSet \cup {"a", "b", "c", "d", "e", "f", "A", "B", "C", "D", "E", "F"}

isLetter(ch) == ch \in LetterSet

isDecimal(ch) == ch \in DecimalSet

isHex(ch) == ch \in HexSet

\* lower(ch): the lower-case letter of an ASCII letter (other characters
\* never become 'b', 'o' or 'x', which is all the result is compared with).
lower(ch) ==
    IF ch \in Range(UpperLetters) THEN LowerLetters[IndexOf(UpperLetters, ch)]
    ELSE ch

\* digitVal(ch).
digitVal(ch) ==
    IF isDecimal(ch) THEN IndexOf(Decimals, ch) - 1
    ELSE IF ch \in {"a", "b", "c", "d", "e", "f"} THEN IndexOf(LowerLetters, ch) + 9
    ELSE IF ch \in {"A", "B", "C", "D", "E", "F"} THEN IndexOf(UpperLetters, ch) + 9
    ELSE 16

\* litname(base).
litname(base) ==
    CASE base = 2 -> "binary literal"
      [] base = 8 -> "octal literal"
      [] base = 16 -> "hexadecimal literal"
      [] OTHER -> "decimal literal"

\* utf8.DecodeRune on the bytes of the model: 0xEF followed by two
\* continuation bytes is a three-byte rune, every other high byte is invalid.
DecodeRune(in) ==
    IF Len(in) >= 3 /\ in[1] = "xEF" /\ in[2] \in ContinuationBytes
       /\ in[3] \in ContinuationBytes
    THEN [r |-> CASE in[2] = "xBB" /\ in[3] = "xBF" -> bom
                  [] in[2] = "xBB" /\ in[3] = "xBB" -> "U+FEFB"
                  [] in[2] = "xBF" /\ in[3] = "xBB" -> "U+FFFB"
                  [] OTHER -> "U+FFFF",
          w |-> 3]
    ELSE [r |-> RuneError, w |-> 1]

\* string(ch): the UTF-8 bytes of a rune.
RuneBytes(ch) ==
    CASE ch = bom -> <<"xEF", "xBB", "xBF">>
      [] ch = "U+FEFB" -> <<"xEF", "xBB", "xBB">>
      [] ch = "U+FFFB" -> <<"xEF", "xBF", "xBB">>
      [] ch = "U+FFFF" -> <<"xEF", "xBF", "xBF">>
      [] ch = RuneError -> <<"xEF", "xBF", "xBD">>
      [] OTHER -> <<ch>>

\* The value of a byte, for the comparison of texts.
ByteCode(b) ==
    CASE b = "x00" -> 0
      [] b = "\t" -> 9
      [] b = "\n" -> 10
      [] b = "\r" -> 13
      [] b = "xBB" -> 187
      [] b = "xBD" -> 189
      [] b = "xBF" -> 191
      [] b = "xEF" -> 239
      [] b = "xFE" -> 254
      [] b = "xFF" -> 255
      [] OTHER -> 31 + IndexOf(AsciiPrintable, b)

\* fmt's %#U of a rune: U+ and four hexadecimal digits, then the quoted
\* character when it is printable.
FormatU(ch) ==
    CASE ch = "x00" -> Chars("U+0000")
      [] ch = "U+FFFB" -> Chars("U+FFFB")
      [] ch = "U+FFFF" -> Chars("U+FFFF")
      [] ch \in {bom, "U+FEFB", RuneError} ->
           Chars(ch) \o Chars(" '") \o RuneBytes(ch) \o Chars("'")
      [] OTHER ->
           LET code == ByteCode(ch)
           IN  Chars("U+00") \o <<HexDigits[code \div 16 + 1], HexDigits[(code % 16) + 1]>>
               \o Chars(" '") \o <<ch>> \o Chars("'")

\* fmt's %q of a printable ASCII character.
FormatQ(ch) == <<"'", ch, "'">>

-----------------------------------------------------------------------------
(* The lexer (package lexer).  The operators below take and return the     *)
(* record X that a Lexer works on: its own fields ch, offset, readOffset,  *)
(* lineOffset, insertSemi, nlPos, noNewSemi and errCount, the File it      *)
(* points to (file) and what its error handler received so far (errs).     *)
(* The source bytes l.src are the parameter src.                           *)

\* src[from:to], with Go's 0-based offsets.
Slice(src, from, to) == SubSeq(src, from + 1, to)

\* A variant of lexError that decodes the position without the line table.
lexErrorFirstLine(X, offs, msg) ==
    [X EXCEPT !.errCount = @ + 1,
              !.errs = Append(@, [Pos |-> position([X.file EXCEPT !.lines = <<0>>],
                                                   FilePos(X.file, offs)),
                                  Msg |-> msg])]

\* Lexer.error(offs, msg): count the error and hand it to the handler with
\* the position decoded from the line table as it is now.
lexError(X, offs, msg) ==
    [X EXCEPT !.errCount = @ + 1,
              !.errs = Append(@, [Pos |-> position(X.file, FilePos(X.file, offs)),
                                  Msg |-> msg])]

\* Lexer.next(): read the next character into l.ch.
newLine(X) ==
    IF X.ch = "\n"
    THEN [X EXCEPT !.lineOffset = X.offset, !.file = AddLine(@, X.offset)]
    ELSE X

lexNext(src, X) ==
    IF X.readOffset >= Len(src)
    THEN [newLine([X EXCEPT !.offset = Len(src)]) EXCEPT !.ch = eof]
    ELSE
    Let([X2 \in {newLine([X EXCEPT !.offset = X.readOffset])} |->
    Let([b \in {src[X2.readOffset + 1]} |->
    Let([in \in {Slice(src, X2.readOffset, Len(src))} |->
    Let([d \in {IF b \in HighBytes THEN DecodeRune(in) ELSE [r |-> b, w |-> 1]} |->
    Let([X3 \in {
        CASE b = "x00" -> lexError(X2, X2.offset, Chars("illegal character NUL"))
          [] b \in HighBytes /\ d.r = RuneError /\ d.w = 1 ->
               IF /\ X2.offset = 0
                  /\ Len(in) >= 2
                  /\ \/ in[1] = "xFF" /\ in[2] = "xFE"
                     \/ in[1] = "xFE" /\ in[2] = "xFF"
               THEN [lexError(X2, X2.offset,
                              Chars("illegal UTF-8 encoding (got UTF-16)"))
                        EXCEPT !.readOffset = @ + Len(in)]
               ELSE lexError(X2, X2.offset, Chars("illegal UTF-8 encoding"))
          [] b \in HighBytes /\ d.r = bom /\ X2.offset > 0 ->
               lexError(X2, X2.offset, Chars("illegal byte order mark"))
          [] OTHER -> X2} |->
        [X3 EXCEPT !.readOffset = @ + d.w, !.ch = d.r]
    ])])])])])

\* Lexer.peek(): the byte after the current character, 0 at the end.
peek(src, X) == IF X.readOffset < Len(src) THEN src[X.readOffset + 1] ELSE "x00"

\* NewLexer(file, src, err): the lexer primed with the first character.
NewLexer(src, file, noNewSemi) ==
    Let([X1 \in {lexNext(src, [ch |-> " ", offset |-> 0, readOffset |-> 0,
                               lineOffset |-> 0, insertSemi |-> FALSE,
                               nlPos |-> NoPos, noNewSemi |-> noNewSemi,
                               errCount |-> 0, file |-> file, errs |-> <<>>])} |->
        IF X1.ch = bom THEN lexNext(src, X1) ELSE X1
    ])

\* Lexer.skipWhitespace().
RECURSIVE skipWhitespace(_, _)
skipWhitespace(src, X) ==
    IF \/ X.ch = " "
       \/ X.ch = "\t"
       \/ X.ch = "\n" /\ ~X.insertSemi
       \/ X.ch = "\r"
    THEN Let([X1 \in {lexNext(src, X)} |-> skipWhitespace(src, X1)])
    ELSE X

\* Lexer.scanIdent(): [x |-> the lexer afterwards, lit |-> the identifier].
RECURSIVE scanIdentLoop(_, _)
scanIdentLoop(src, X) ==
    IF isLetter(X.ch) \/ isDecimal(X.ch)
    THEN Let([X1 \in {lexNext(src, X)} |-> scanIdentLoop(src, X1)])
    ELSE X

scanIdent(src, X) ==
    Let([X1 \in {scanIdentLoop(src, X)} |->
        [x |-> X1, lit |-> Slice(src, X.offset, X1.offset)]
    ])

\* Lexer.switch2, switch3, switch4: [x |-> the lexer afterwards, tok].
switch2(src, X, tok0, tok1) ==
    IF X.ch = "=" THEN [x |-> lexNext(src, X), tok |-> tok1]
    ELSE [x |-> X, tok |-> tok0]

switch3(src, X, tok0, tok1, ch2, tok2) ==
    IF X.ch = "=" \/ X.ch = ch2
    THEN [x |-> lexNext(src, X), tok |-> IF X.ch = "=" THEN tok1 ELSE tok2]
    ELSE [x |-> X, tok |-> tok0]

switch4(src, X, tok0, tok1, ch2, tok2, tok3) ==
    IF X.ch = "=" THEN [x |-> lexNext(src, X), tok |-> tok1]
    ELSE IF X.ch = ch2
    THEN Let([X1 \in {lexNext(src, X)} |->
             IF X1.ch = "=" THEN [x |-> lexNext(src, X1), tok |-> tok3]
             ELSE [x |-> X1, tok |-> tok2]
         ])
    ELSE [x |-> X, tok |-> tok0]

\* Lexer.scanDigits(base, &invalid): [x, invalid, dig, sep], where dig and
\* sep are bits 0 and 1 of the digSep returned.
RECURSIVE scanDigitsLoop(_, _, _, _, _, _)
scanDigitsLoop(src, X, base, invalid, dig, sep) ==
    IF isHex(X.ch) \/ X.ch = "_"
    THEN LET \* l.ch >= '0' + base: a decimal digit not below the base, or a letter
             tooBig == IF isDecimal(X.ch) THEN digitVal(X.ch) >= base ELSE TRUE
         IN  Let([X1 \in {lexNext(src, X)} |->
                 scanDigitsLoop(src, X1, base,
                                IF base <= 10 /\ X.ch # "_" /\ tooBig /\ invalid < 0
                                THEN X.offset
                                ELSE invalid,
                                dig \/ X.ch # "_", sep \/ X.ch = "_")
             ])
    ELSE [x |-> X, invalid |-> invalid, dig |-> dig, sep |-> sep]

scanDigits(src, X, base, invalid) ==
    scanDigitsLoop(src, X, base, invalid, FALSE, FALSE)

\* invalidSep(x): 0-based index of the first invalid '_' in x, or -1.
\* d is '_', '0' (a digit) or '.' (anything else).
RECURSIVE invalidSepLoop(_, _, _, _)
invalidSepLoop(x, x1, d, i) ==
    IF i >= Len(x) THEN (IF d = "_" THEN Len(x) - 1 ELSE -1)
    ELSE IF x[i + 1] = "_"
    THEN IF d # "0" THEN i ELSE invalidSepLoop(x, x1, "_", i + 1)
    ELSE IF isDecimal(x[i + 1]) \/ (x1 = "x" /\ isHex(x[i + 1]))
    THEN invalidSepLoop(x, x1, "0", i + 1)
    ELSE IF d = "_" THEN i - 1
    ELSE invalidSepLoop(x, x1, ".", i + 1)

invalidSep(x) ==
    IF Len(x) >= 2 /\ x[1] = "0"
    THEN IF lower(x[2]) \in {"b", "o", "x"}
         THEN invalidSepLoop(x, lower(x[2]), "0", 2)
         ELSE invalidSepLoop(x, lower(x[2]), ".", 0)
    ELSE invalidSepLoop(x, " ", ".", 0)

\* Lexer.scanNumber(): [x, tok, lit].
numberBase(src, X) ==
    IF X.ch = "0"
    THEN CASE peek(src, X) \in {"b", "B"} -> 2
           [] peek(src, X) \in {"o", "O"} -> 8
           [] peek(src, X) \in {"x", "X"} -> 16
           [] OTHER -> 10
    ELSE 10

\* The two calls of l.next() over a base prefix.
skipPrefix(src, X) ==
    Let([X1 \in {lexNext(src, X)} |-> lexNext(src, X1)])

\* The fractional part: [x, invalid, dig, sep]; base is the base of the
\* integer part and invalid the index scanDigits left.
scanFraction(src, X, offs, base, invalid) ==
    IF X.ch = "."
    THEN Let([X1 \in {lexNext(src, X)} |->
         Let([X2 \in {IF base # 10
                      THEN lexError(X1, offs, Chars("only decimal floats are possible"))
                      ELSE X1} |->
             scanDigits(src, X2, 10, invalid)
         ])])
    ELSE [x |-> X, invalid |-> invalid, dig |-> FALSE, sep |-> FALSE]

scanNumber(src, X) ==
    Let([offs \in {X.offset} |->
    Let([base \in {numberBase(src, X)} |->
    Let([X1 \in {IF base # 10 THEN skipPrefix(src, X) ELSE X} |->
    Let([ds \in {scanDigits(src, X1, base, -1)} |->
    Let([X2 \in {IF ~ds.dig
                 THEN lexError(ds.x, ds.x.offset,
                               Chars(litname(base) \o " has no digits"))
                 ELSE ds.x} |->
    Let([tok \in {IF X2.ch = "." THEN "Float" ELSE "Int"} |->
    Let([fr \in {scanFraction(src, X2, offs, base, ds.invalid)} |->
    Let([lit \in {Slice(src, offs, fr.x.offset)} |->
    Let([X4 \in {IF tok = "Int" /\ fr.invalid >= 0
                 THEN lexError(fr.x, fr.invalid,
                               Chars("invalid digit ")
                                 \o FormatQ(lit[fr.invalid - offs + 1])
                                 \o Chars(" in " \o litname(base)))
                 ELSE fr.x} |->
    Let([i \in {IF ds.sep \/ fr.sep THEN invalidSep(lit) ELSE -1} |->
    Let([X5 \in {IF i >= 0
                 THEN lexError(X4, offs + i,
                               Chars("'_' must separate successive digits"))
                 ELSE X4} |->
        [x |-> IF tok = "Float" /\ ~fr.dig
               THEN lexError(X5, offs, Chars("no fraction part for the float"))
               ELSE X5,
         tok |-> tok, lit |-> lit]
    ])])])])])])])])])])])

\* stripCR(b, comment): b without its carriage returns, except those of a
\* "*\r/" in a /*-style comment.
RECURSIVE stripCRLoop(_, _, _, _)
stripCRLoop(b, comment, j, c) ==
    IF j >= Len(b) THEN c
    ELSE IF \/ b[j + 1] # "\r"
            \/ /\ comment
               /\ Len(c) > 2
               /\ c[Len(c)] = "*"
               /\ j + 1 < Len(b)
               /\ b[j + 2] = "/"
    THEN stripCRLoop(b, comment, j + 1, Append(c, b[j + 1]))
    ELSE stripCRLoop(b, comment, j + 1, c)

stripCR(b, comment) == stripCRLoop(b, comment, 0, <<>>)

\* Lexer.scanComment(): [x, lit, nlOffset]; the initial '/' is consumed and
\* l.ch is '/' or '*'.
RECURSIVE lineCommentLoop(_, _, _)
lineCommentLoop(src, X, numCR) ==
    IF X.ch # "\n" /\ X.ch # eof
    THEN Let([X1 \in {lexNext(src, X)} |->
             lineCommentLoop(src, X1, IF X.ch = "\r" THEN numCR + 1 ELSE numCR)
         ])
    ELSE [x |-> X, numCR |-> numCR, nlOffset |-> 0, closed |-> TRUE]

\* The offset scanComment keeps for the newlines of a /*...*/ comment: that
\* of the first one.
lastNewline(ch, nlOffset, offset) ==
    IF ch # "\r" /\ ch = "\n" THEN offset ELSE nlOffset

firstNewline(ch, nlOffset, offset) ==
    IF ch # "\r" /\ ch = "\n" /\ nlOffset = 0 THEN offset ELSE nlOffset

RECURSIVE blockCommentLoop(_, _, _, _)
blockCommentLoop(src, X, numCR, nlOffset) ==
    IF X.ch # eof
    THEN Let([cr \in {IF X.ch = "\r" THEN numCR + 1 ELSE numCR} |->
         Let([nl \in {firstNewline(X.ch, nlOffset, X.offset)} |->
         Let([X1 \in {lexNext(src, X)} |->
             IF X.ch = "*" /\ X1.ch = "/"
             THEN [x |-> lexNext(src, X1), numCR |-> cr, nlOffset |-> nl,
                   closed |-> TRUE]
             ELSE blockCommentLoop(src, X1, cr, nl)
         ])])])
    ELSE [x |-> X, numCR |-> numCR, nlOffset |-> nlOffset, closed |-> FALSE]

\* The text of a comment from the bytes lit0 of the source, numCR of them
\* carriage returns: the trailing one of a //-style comment is dropped,
\* the others are stripped.
commentText(lit0, numCR) ==
    IF numCR > 0 /\ Len(lit0) >= 2 /\ lit0[2] = "/" /\ lit0[Len(lit0)] = "\r"
    THEN IF numCR - 1 > 0
         THEN stripCR(SubSeq(lit0, 1, Len(lit0) - 1), FALSE)
         ELSE SubSeq(lit0, 1, Len(lit0) - 1)
    ELSE IF numCR > 0 THEN stripCR(lit0, lit0[2] = "*")
    ELSE lit0

scanComment(src, X) ==
    Let([offs \in {X.offset - 1} |->
    Let([X0 \in {lexNext(src, X)} |->
    Let([r \in {IF X.ch = "/" THEN lineCommentLoop(src, X0, 0)
                ELSE blockCommentLoop(src, X0, 0, 0)} |->
    Let([X1 \in {IF r.closed THEN r.x
                 ELSE lexError(r.x, offs, Chars("comment not terminated"))} |->
        [x |-> X1, lit |-> commentText(Slice(src, offs, X1.offset), r.numCR),
         nlOffset |-> r.nlOffset]
    ])])])])

\* Lexer.scanEscape(quote): [x, ok].  The value x of a numeric escape is
\* kept up to EscapeCap, above every maxValue it is compared with.
EscapeCap == 1114112

RECURSIVE escapeDigits(_, _, _, _, _)
escapeDigits(src, X, n, base, x) ==
    IF n > 0
    THEN IF digitVal(X.ch) >= base
         THEN [x |-> lexError(X, X.offset,
                              IF X.ch = eof
                              THEN Chars("escape sequence not terminated")
                              ELSE Chars("illegal character ") \o FormatU(X.ch)
                                     \o Chars(" in escape sequence")),
               ok |-> FALSE, val |-> x]
         ELSE Let([X1 \in {lexNext(src, X)} |->
                  escapeDigits(src, X1, n - 1, base,
                               IF x > (EscapeCap - digitVal(X.ch)) \div base
                               THEN EscapeCap
                               ELSE x * base + digitVal(X.ch))
              ])
    ELSE [x |-> X, ok |-> TRUE, val |-> x]

\* The numeric escapes: the number of digits, their base, the largest value.
escapeLen(ch) == CASE ch = "x" -> 2 [] ch = "u" -> 4 [] ch = "U" -> 8 [] OTHER -> 3

escapeBase(ch) == IF ch \in {"x", "u", "U"} THEN 16 ELSE 8

escapeMax(ch) == IF ch \in {"u", "U"} THEN 1114111 ELSE 255

scanEscape(src, X, quote) ==
    IF X.ch \in {"a", "b", "f", "n", "r", "t", "v", "\\", quote}
    THEN [x |-> lexNext(src, X), ok |-> TRUE]
    ELSE IF ~(X.ch \in {"0", "1", "2", "3", "4", "5", "6", "7", "x", "u", "U"})
    THEN [x |-> lexError(X, X.offset,
                         IF X.ch = eof THEN Chars("escape sequence not terminated")
                         ELSE Chars("unknown escape sequence")),
          ok |-> FALSE]
    ELSE
    Let([X1 \in {IF X.ch \in {"x", "u", "U"} THEN lexNext(src, X) ELSE X} |->
    Let([r \in {escapeDigits(src, X1, escapeLen(X.ch), escapeBase(X.ch), 0)} |->
        IF ~r.ok THEN [x |-> r.x, ok |-> FALSE]
        ELSE IF r.val > escapeMax(X.ch) \/ (55296 <= r.val /\ r.val < 57344)
        THEN [x |-> lexError(r.x, X.offset,
                             Chars("escape sequence is invalid Unicode code point")),
              ok |-> FALSE]
        ELSE [x |-> r.x, ok |-> TRUE]
    ])])

\* Lexer.scanString(): [x, lit]; the opening '"' is consumed.
RECURSIVE scanStringLoop(_, _, _)
scanStringLoop(src, X, offs) ==
    IF X.ch = "\n" \/ X.ch = eof
    THEN lexError(X, offs, Chars("string literal not terminated"))
    ELSE
    Let([X1 \in {lexNext(src, X)} |->
        IF X.ch = "\"" THEN X1
        ELSE IF X.ch = "\\"
        THEN Let([e \in {scanEscape(src, X1, "\"")} |->
                 scanStringLoop(src, e.x, offs)])
        ELSE scanStringLoop(src, X1, offs)
    ])

scanString(src, X) ==
    Let([X1 \in {scanStringLoop(src, X, X.offset - 1)} |->
        [x |-> X1, lit |-> Slice(src, X.offset - 1, X1.offset)]
    ])

\* Lexer.scanRune(): [x, lit]; the opening '\'' is consumed.
RECURSIVE scanRuneLoop(_, _, _, _, _)
scanRuneLoop(src, X, offs, valid, n) ==
    IF X.ch = "\n" \/ X.ch = eof
    THEN [x |-> IF valid THEN lexError(X, offs, Chars("rune literal not terminated"))
                ELSE X,
          valid |-> FALSE, n |-> n]
    ELSE
    Let([X1 \in {lexNext(src, X)} |->
        IF X.ch = "'" THEN [x |-> X1, valid |-> valid, n |-> n]
        ELSE IF X.ch = "\\"
        THEN Let([e \in {scanEscape(src, X1, "'")} |->
                 scanRuneLoop(src, e.x, offs, valid /\ e.ok, n + 1)])
        ELSE scanRuneLoop(src, X1, offs, valid, n + 1)
    ])

scanRune(src, X) ==
    Let([r \in {scanRuneLoop(src, X, X.offset - 1, TRUE, 0)} |->
    Let([X1 \in {IF r.valid /\ r.n # 1
                 THEN lexError(r.x, X.offset - 1, Chars("illegal rune literal"))
                 ELSE r.x} |->
        [x |-> X1, lit |-> Slice(src, X.offset - 1, X1.offset)]
    ])])

\* Lexer.scanRawString(): [x, lit]; the opening back quote is consumed.
RECURSIVE scanRawStringLoop(_, _, _, _)
scanRawStringLoop(src, X, offs, hasCR) ==
    IF X.ch = eof
    THEN [x |-> lexError(X, offs, Chars("raw string literal not terminated")),
          hasCR |-> hasCR]
    ELSE
    Let([X1 \in {lexNext(src, X)} |->
        IF X.ch = BackQuote THEN [x |-> X1, hasCR |-> hasCR]
        ELSE scanRawStringLoop(src, X1, offs, hasCR \/ X.ch = "\r")
    ])

scanRawString(src, X) ==
    Let([r \in {scanRawStringLoop(src, X, X.offset - 1, FALSE)} |->
    Let([lit \in {Slice(src, X.offset - 1, r.x.offset)} |->
        [x |-> r.x, lit |-> IF r.hasCR THEN stripCR(lit, FALSE) ELSE lit]
    ])])

\* The tokens after which Scan sets insertSemi in its identifier case.
semiKeywordsNoReturn == {"Ident", "Break", "Continue", "Fallthrough"}

semiKeywords == {"Ident", "Break", "Continue", "Fallthrough", "Return"}

\* The operator cases of Scan: the character ch was consumed, l.ch is the
\* next one.  [x, tok].
skipDots(src, X) ==
    Let([X1 \in {lexNext(src, X)} |-> lexNext(src, X1)])

andNot(src, X) ==
    Let([X1 \in {lexNext(src, X)} |-> switch2(src, X1, "AndNot", "AndNotAssign")])

scanOperator(src, X, ch) ==
    CASE ch = "," -> [x |-> X, tok |-> "Comma"]
      [] ch = "." ->
           IF X.ch = "." /\ peek(src, X) = "."
           THEN [x |-> skipDots(src, X), tok |-> "Ellipsis"]
           ELSE [x |-> X, tok |-> "Period"]
      [] ch = ":" -> switch2(src, X, "Colon", "Define")
      [] ch = "(" -> [x |-> X, tok |-> "LeftParen"]
      [] ch = "[" -> [x |-> X, tok |-> "LeftBrack"]
      [] ch = "{" -> [x |-> X, tok |-> "LeftBrace"]
      [] ch = ")" -> [x |-> X, tok |-> "RightParen"]
      [] ch = "]" -> [x |-> X, tok |-> "RightBrack"]
      [] ch = "}" -> [x |-> X, tok |-> "RightBrace"]
      [] ch = "+" -> switch4(src, X, "Add", "AddAssign", "+", "Concat", "ConcatAssign")
      [] ch = "-" -> switch2(src, X, "Sub", "SubAssign")
      [] ch = "*" -> switch2(src, X, "Mul", "MulAssign")
      [] ch = "/" -> switch2(src, X, "Quo", "QuoAssign")
      [] ch = "%" -> switch2(src, X, "Rem", "RemAssign")
      [] ch = "^" -> switch2(src, X, "Xor", "XorAssign")
      [] ch = "<" -> switch4(src, X, "Less", "LessEqual", "<", "Shl", "ShlAssign")
      [] ch = ">" -> switch4(src, X, "Greater", "GreaterEqual", ">", "Shr", "ShrAssign")
      [] ch = "=" -> switch2(src, X, "Assign", "Equal")
      [] ch = "!" -> switch2(src, X, "LogicNot", "NotEqual")
      [] ch = "&" ->
           IF X.ch = "^" THEN andNot(src, X)
           ELSE switch3(src, X, "And", "AndAssign", "&", "LogicAnd")
      [] ch = "|" -> switch3(src, X, "Or", "OrAssign", "|", "LogicOr")

OperatorChars ==
    {",", ".", ":", "(", "[", "{", ")", "]", "}", "+", "-", "*", "/", "%", "^",
     "<", ">", "=", "!", "&", "|"}

\* The literal Scan returns with an operator token.
operatorLitCanonical(tok) == TokenString(tok)

operatorLit(tok) == <<>>

\* The end of Scan: unless in the testing mode, l.insertSemi = insertSemi.
finishKeepFlag(X, insertSemi) == X

finishSetFlag(X, insertSemi) == [X EXCEPT !.insertSemi = TRUE]

finish(X, insertSemi) ==
    IF ~X.noNewSemi THEN [X EXCEPT !.insertSemi = insertSemi] ELSE X

\* The result of Scan.
scanned(X, pos, tok, lit) == [x |-> X, pos |-> pos, tok |-> tok, lit |-> lit]

\* A variant of newlinePos that puts the semicolon where the comment is.
newlinePosAtComment(X, pos, nlOffset) == pos

\* l.file.Pos(nlOffset): the position of the artificial semicolon after a
\* comment at pos whose first newline is at nlOffset.
newlinePos(X, pos, nlOffset) == FilePos(X.file, nlOffset)

\* The cases of Scan for a character ch that is no letter and begins no
\* number: ch was consumed (l.next(), "always make progress") and X is the
\* lexer after that.
scanOther(src, X, pos, ch) ==
    CASE ch = eof ->
           IF X.insertSemi
           THEN scanned([X EXCEPT !.insertSemi = FALSE], pos, "Semicolon", <<"\n">>)
           ELSE scanned(finish(X, FALSE), pos, "EOF", <<>>)
      [] ch = "\n" ->
           scanned([X EXCEPT !.insertSemi = FALSE], pos, "Semicolon", <<"\n">>)
      [] ch = "\"" ->
           Let([r \in {scanString(src, X)} |->
               scanned(finish(r.x, TRUE), pos, "String", r.lit)])
      [] ch = "'" ->
           Let([r \in {scanRune(src, X)} |->
               scanned(finish(r.x, TRUE), pos, "Char", r.lit)])
      [] ch = BackQuote ->
           Let([r \in {scanRawString(src, X)} |->
               scanned(finish(r.x, TRUE), pos, "String", r.lit)])
      [] ch = ";" -> scanned(finish(X, FALSE), pos, "Semicolon", <<";">>)
      [] ch = "/" /\ (X.ch = "/" \/ X.ch = "*") ->
           Let([r \in {scanComment(src, X)} |->
               IF r.x.insertSemi /\ r.nlOffset # 0
               THEN scanned(finish([r.x EXCEPT
                                      !.nlPos = newlinePos(r.x, pos, r.nlOffset),
                                      !.insertSemi = FALSE], FALSE),
                            pos, "Comment", r.lit)
               ELSE scanned(finish(r.x, r.x.insertSemi), pos, "Comment", r.lit)])
      [] ch \in OperatorChars /\ ~(ch = "/" /\ (X.ch = "/" \/ X.ch = "*")) ->
           Let([r \in {scanOperator(src, X, ch)} |->
               scanned(finish(r.x, r.tok \in {"RightParen", "RightBrack",
                                              "RightBrace"}),
                       pos, r.tok, operatorLit(r.tok))])
      [] OTHER ->
           \* next reports unexpected BOMs - don't repeat
           Let([X3 \in {IF ch # bom
                        THEN lexError(X, FileOffset(X.file, pos),
                                      Chars("illegal character ") \o FormatU(ch))
                        ELSE X} |->
               scanned(finish(X3, X3.insertSemi), pos, "Illegal", RuneBytes(ch))])

\* Lexer.Scan(): [x |-> the lexer afterwards, pos, tok, lit].
Scan(src, X) ==
    IF X.nlPos # NoPos
    THEN scanned([X EXCEPT !.nlPos = NoPos], X.nlPos, "Semicolon", <<"\n">>)
    ELSE
    Let([X1 \in {skipWhitespace(src, X)} |->
    Let([pos \in {FilePos(X1.file, X1.offset)} |->
        IF isLetter(X1.ch)
        THEN Let([r \in {scanIdent(src, X1)} |->
             Let([tok \in {Lookup(r.lit)} |->
                 scanned(finish(r.x, tok \in semiKeywords), pos, tok, r.lit)])])
        ELSE IF isDecimal(X1.ch) \/ (X1.ch = "." /\ isDecimal(peek(src, X1)))
        THEN Let([r \in {scanNumber(src, X1)} |->
                 scanned(finish(r.x, TRUE), pos, r.tok, r.lit)])
        ELSE Let([X2 \in {lexNext(src, X1)} |-> scanOther(src, X2, pos, X1.ch)])
    ])])

-----------------------------------------------------------------------------
(* Errors (src/parser/errors.go).  An Error is the record [Pos, Msg], Msg  *)
(* being the characters of the message; an ErrorList is a sequence.        *)

\* strings.Compare(a, b) on the characters of two texts: -1, 0 or 1.
RECURSIVE CompareText(_, _)
CompareText(a, b) ==
    IF a = <<>> \/ b = <<>>
    THEN IF a = b THEN 0 ELSE IF a = <<>> THEN -1 ELSE 1
    ELSE IF ByteCode(Head(a)) < ByteCode(Head(b)) THEN -1
    ELSE IF ByteCode(Head(a)) > ByteCode(Head(b)) THEN 1
    ELSE CompareText(Tail(a), Tail(b))

\* cmp.Compare on integers.
CompareInt(a, b) == IF a < b THEN -1 ELSE IF a > b THEN 1 ELSE 0

\* The comparison ErrorList.sort sorts by: file name, line, column, message.
CompareError(ee, ff) ==
    LET byName == CompareText(Chars(ee.Pos.Filename), Chars(ff.Pos.Filename))
        byLine == CompareInt(ee.Pos.Line, ff.Pos.Line)
        byColumn == CompareInt(ee.Pos.Column, ff.Pos.Column)
    IN  IF byName # 0 THEN byName
        ELSE IF byLine # 0 THEN byLine
        ELSE IF byColumn # 0 THEN byColumn
        ELSE CompareText(ee.Msg, ff.Msg)

\* list, sorted, with e put in before the first entry greater than it.
RECURSIVE InsertError(_, _)
InsertError(list, e) ==
    IF list = <<>> THEN <<e>>
    ELSE IF CompareError(e, Head(list)) < 0 THEN <<e>> \o list
    ELSE <<Head(list)>> \o InsertError(Tail(list), e)

\* ErrorList.sort(): entries that compare equal are equal, so the sorted
\* list is the same for every sorting algorithm.
RECURSIVE SortErrors(_)
SortErrors(list) ==
    IF list = <<>> THEN <<>>
    ELSE Let([sorted \in {SortErrors(SubSeq(list, 1, Len(list) - 1))} |->
             InsertError(sorted, list[Len(list)])])

\* ErrorList.Add(pos, msg).
ErrorListAdd(list, pos, msg) == Append(list, [Pos |-> pos, Msg |-> msg])

\* ErrorList.Err(): nil for the empty list, the list itself otherwise.
NilError == [kind |-> "nil"]

ErrorListErr(list) ==
    IF Len(list) = 0 THEN NilError ELSE [kind |-> "ErrorList", list |-> list]

\* A variant of differs that compares the lines only.
differsByLine(pos, last) == pos.Line # last.Line

\* The test of removeMultiples: the entry at pos is on another line than
\* the entry kept last.
differs(pos, last) == pos.Filename # last.Filename \/ pos.Line # last.Line

\* ErrorList.removeMultiples(): the list is sorted, and an entry is kept
\* when it differs from the one kept last, which at first is the zero
\* Position.
RECURSIVE removeLoop(_, _, _)
removeLoop(list, last, kept) ==
    IF list = <<>> THEN kept
    ELSE IF differs(list[1].Pos, last)
    THEN removeLoop(Tail(list), list[1].Pos, Append(kept, list[1]))
    ELSE removeLoop(Tail(list), last, kept)

removeMultiples(list) ==
    Let([sorted \in {SortErrors(list)} |-> removeLoop(sorted, NoPosition, <<>>)])

\* strconv.Itoa(n) and the verb %d, for n >= 0.
RECURSIVE Itoa(_)
Itoa(n) ==
    IF n < 10 THEN <<Decimals[n + 1]>>
    ELSE Itoa(n \div 10) \o <<Decimals[(n % 10) + 1]>>

\* Position.String()
PositionString(pos) ==
    LET name == Chars(pos.Filename)
        s == IF ~PositionIsValid(pos) THEN name
             ELSE (IF name # <<>> THEN name \o <<":">> ELSE name)
                  \o Itoa(pos.Line)
                  \o (IF pos.Column # 0 THEN <<":">> \o Itoa(pos.Column) ELSE <<>>)
    IN  IF s = <<>> THEN <<"-">> ELSE s

\* A variant of ErrorError that gives the bare message for every invalid
\* position.
ErrorErrorOfValid(e) ==
    IF PositionIsValid(e.Pos)
    THEN PositionString(e.Pos) \o Chars(": ") \o e.Msg
    ELSE e.Msg

\* Error.Error()
ErrorError(e) ==
    IF e.Pos.Filename # "" \/ PositionIsValid(e.Pos)
    THEN PositionString(e.Pos) \o Chars(": ") \o e.Msg
    ELSE e.Msg

\* A variant of moreErrors that counts the first error too.
moreErrorsAll(list) == Len(list)

\* len(p)-1 of ErrorList.Error().
moreErrors(list) == Len(list) - 1

\* ErrorList.Error()
ErrorListError(list) ==
    IF Len(list) = 0 THEN Chars("no errors")
    ELSE IF Len(list) = 1 THEN ErrorError(list[1])
    ELSE ErrorError(list[1]) \o Chars(" (and ") \o Itoa(moreErrors(list))
         \o Chars(" more errors)")

-----------------------------------------------------------------------------
(* The parser (package parser).  The operators below take and return the   *)
(* record P of a parser's fields.  P.scanner is the record of its Lexer,   *)
(* whose File is p.file and whose error handler adds to p.errors.  Scan is *)
(* a function of the source and the lexer, so its successive results are   *)
(* tabulated when the lexer is created: lexRun[1] holds the new lexer and  *)
(* lexRun[k + 1] the result of the k-th call, up to the first EOF, which   *)
(* every later call returns again; P.scanIx is the entry the parser is at  *)
(* and P.scanOdd the parity of the number of calls it made.  An AST node   *)
(* is a record with the fields of its struct and its type as kind.         *)

\* A nil pointer or interface.
Nil == [kind |-> "nil"]

\* The Lexer of a source text with the results of its Scan calls.
RECURSIVE ScanRunFrom(_, _, _)
ScanRunFrom(src, X, run) ==
    Let([r \in {Scan(src, X)} |->
        IF r.tok = "EOF" THEN Append(run, r)
        ELSE ScanRunFrom(src, r.x, Append(run, r))
    ])

ScanRun(src, file) ==
    Let([X \in {NewLexer(src, file, FALSE)} |->
        ScanRunFrom(src, X, <<scanned(X, NoPos, "none", <<>>)>>)
    ])

\* p.file
parserFile(P) == P.scanner.file

\* parser.error(pos, msg)
error(P, pos, msg) ==
    [P EXCEPT !.errors = ErrorListAdd(@, FilePosition(parserFile(P), pos), msg)]

\* parser.errorExpected(pos, msg)
found(P, pos) ==
    IF pos # P.pos THEN <<>>
    ELSE IF P.tok = "Semicolon" /\ P.lit = <<"\n">> THEN Chars(", found newline")
    ELSE IF IsLiteral(P.tok) THEN Chars(", found ") \o P.lit
    ELSE Chars(", found '") \o TokenString(P.tok) \o Chars("'")

errorExpected(P, pos, msg) ==
    error(P, pos, Chars("expected ") \o msg \o found(P, pos))

\* parser.next0(): scan until the token is no comment.
RECURSIVE next0(_)
next0(P) ==
    Let([i \in {IF P.scanIx < Len(lexRun) - 1 THEN P.scanIx + 1 ELSE P.scanIx} |->
    Let([r \in {lexRun[i + 1]} |->
    Let([P1 \in {[P EXCEPT !.scanIx = i,
                           !.scanOdd = ~@,
                           !.scanner = r.x,
                           !.errors = @ \o SubSeq(r.x.errs, Len(P.scanner.errs) + 1,
                                                  Len(r.x.errs)),
                           !.pos = r.pos,
                           !.tok = r.tok,
                           !.lit = r.lit]} |->
        IF r.tok # "Comment" THEN P1 ELSE next0(P1)
    ])])])

\* The number of newlines in a text.
RECURSIVE newlineCount(_)
newlineCount(lit) ==
    IF lit = <<>> THEN 0
    ELSE (IF Head(lit) = "\n" THEN 1 ELSE 0) + newlineCount(Tail(lit))

\* parser.consumeComment(): [p, comment, endline].
consumeComment(P) ==
    [p |-> next0(P),
     comment |-> [kind |-> "Comment", Slash |-> P.pos, Text |-> P.lit],
     endline |-> IF P.lit[2] = "*"
                 THEN FileLine(parserFile(P), P.pos) + newlineCount(P.lit)
                 ELSE FileLine(parserFile(P), P.pos)]

\* parser.consumeCommentGroup(n): [p, comments, endline].
RECURSIVE consumeCommentLoop(_, _, _, _)
consumeCommentLoop(P, n, list, endline) ==
    IF P.tok = "Comment" /\ FileLine(parserFile(P), P.pos) <= endline + n
    THEN Let([r \in {consumeComment(P)} |->
             consumeCommentLoop(r.p, n, Append(list, r.comment), r.endline)])
    ELSE [p |-> P, list |-> list, endline |-> endline]

consumeCommentGroup(P, n) ==
    Let([r \in {consumeCommentLoop(P, n, <<>>, FileLine(parserFile(P), P.pos))} |->
    Let([comments \in {[kind |-> "CommentGroup", List |-> r.list]} |->
        [p |-> [r.p EXCEPT !.comments = Append(@, comments)],
         comments |-> comments, endline |-> r.endline]
    ])])

\* parser.next(): the next token that is no comment; the comment groups on
\* the way are collected.
RECURSIVE successorComments(_, _, _)
successorComments(P, comment, endline) ==
    IF P.tok = "Comment"
    THEN Let([r \in {consumeCommentGroup(P, 1)} |->
             successorComments(r.p, r.comments, r.endline)])
    ELSE [p |-> P, comment |-> comment, endline |-> endline]

\* The part of next() after next0() returned a comment; prev is the
\* position of the token before.
nextComments(P, prev) ==
    Let([sameLine \in {FileLine(parserFile(P), P.pos) = FileLine(parserFile(P), prev)} |->
    Let([g \in {IF sameLine THEN consumeCommentGroup(P, 0)
                ELSE [p |-> P, comments |-> Nil, endline |-> 0]} |->
    Let([P2 \in {IF sameLine /\ (\/ FileLine(parserFile(g.p), g.p.pos) # g.endline
                                 \/ g.p.tok = "Semicolon"
                                 \/ g.p.tok = "EOF")
                 THEN [g.p EXCEPT !.lineComment = g.comments]
                 ELSE g.p} |->
    Let([sc \in {successorComments(P2, g.comments, -1)} |->
        IF sc.endline + 1 = FileLine(parserFile(sc.p), sc.p.pos)
        THEN [sc.p EXCEPT !.leadComment = sc.comment]
        ELSE sc.p
    ])])])])

next(P) ==
    Let([P1 \in {next0([P EXCEPT !.leadComment = Nil, !.lineComment = Nil])} |->
        IF P1.tok # "Comment" THEN P1 ELSE nextComments(P1, P.pos)
    ])

\* parser.expect(tok): [p, pos].
expect(P, tok) ==
    Let([P1 \in {IF P.tok # tok
                 THEN errorExpected(P, P.pos,
                                    Chars("'") \o TokenString(tok) \o Chars("'"))
                 ELSE P} |->
        [p |-> next(P1), pos |-> P.pos]
    ])

declStart == {"Const", "Func", "Import", "Struct", "Typedef", "Var"}

stmtStart ==
    {"Break", "Const", "Continue", "Defer", "Fallthrough", "For", "Goto", "If",
     "Return", "Switch", "Typedef", "Var"}

exprEnd == {"Comma", "Colon", "Semicolon", "RightParen", "RightBrack", "RightBrace"}

\* A variant of advance without the guard: it returns at every token of
\* the set.
RECURSIVE advanceUnguarded(_, _)
advanceUnguarded(P, to) ==
    IF P.tok = "EOF" THEN P
    ELSE IF P.tok \in to /\ P.pos = P.syncPos
    THEN [P EXCEPT !.syncCount = @ + 1]
    ELSE IF P.tok \in to /\ P.pos > P.syncPos
    THEN [P EXCEPT !.syncPos = P.pos, !.syncCount = 0]
    ELSE Let([P1 \in {next(P)} |-> advanceUnguarded(P1, to)])

\* parser.advance(to)
RECURSIVE advance(_, _)
advance(P, to) ==
    IF P.tok = "EOF" THEN P
    ELSE IF P.tok \in to /\ P.pos = P.syncPos /\ P.syncCount < 10
    THEN [P EXCEPT !.syncCount = @ + 1]
    ELSE IF P.tok \in to /\ P.pos > P.syncPos
    THEN [P EXCEPT !.syncPos = P.pos, !.syncCount = 0]
    ELSE Let([P1 \in {next(P)} |-> advance(P1, to)])

\* p.errorExpected(p.pos, msg) and p.advance(to): the parser afterwards.
skipTo(P, msg, to) ==
    Let([P1 \in {errorExpected(P, P.pos, msg)} |-> advance(P1, to)])

\* A variant of expectSemi that leaves a comma where it is.
expectSemiKeepComma(P) ==
    IF P.tok = "RightParen" \/ P.tok = "RightBrace"
    THEN [p |-> P, comment |-> Nil]
    ELSE IF P.tok = "Comma"
    THEN [p |-> errorExpected(P, P.pos, Chars("';'")), comment |-> P.lineComment]
    ELSE IF P.tok = "Semicolon"
    THEN Let([P2 \in {next(P)} |->
             [p |-> P2,
              comment |-> IF P.lit = <<";">> THEN P2.lineComment
                          ELSE P.lineComment]])
    ELSE [p |-> skipTo(P, Chars("';'"), stmtStart), comment |-> Nil]

\* parser.expectSemi(): [p, comment].
expectSemi(P) ==
    IF P.tok = "RightParen" \/ P.tok = "RightBrace"
    THEN [p |-> P, comment |-> Nil]
    ELSE IF P.tok = "Comma" \/ P.tok = "Semicolon"
    THEN Let([P1 \in {IF P.tok = "Comma"
                      THEN errorExpected(P, P.pos, Chars("';'"))
                      ELSE P} |->
         Let([P2 \in {next(P1)} |->
             \* an explicit semicolon takes the comments that follow it, an
             \* artificial one those before it
             [p |-> P2,
              comment |-> IF P1.lit = <<";">> THEN P2.lineComment
                          ELSE P1.lineComment]
         ])])
    ELSE [p |-> skipTo(P, Chars("';'"), stmtStart), comment |-> Nil]

\* parser.parseIdent(): [p, node].
parseIdent(P) ==
    [p |-> IF P.tok = "Ident" THEN next(P) ELSE expect(P, "Ident").p,
     node |-> [kind |-> "Ident", NamePos |-> P.pos,
               Name |-> IF P.tok = "Ident" THEN P.lit ELSE Chars("_")]]

\* parser.parseTypeName(ident): [p, node].
selector(P, ident) ==
    Let([P1 \in {next(P)} |->
    Let([sel \in {parseIdent(P1)} |->
        [p |-> sel.p,
         node |-> [kind |-> "SelectorExpr", X |-> ident, Sel |-> sel.node]]
    ])])

parseTypeName(P, ident) ==
    Let([id \in {IF ident = Nil THEN parseIdent(P) ELSE [p |-> P, node |-> ident]} |->
        \* a period: ident is a package name
        IF id.p.tok = "Period" THEN selector(id.p, id.node) ELSE id
    ])

\* parser.tryIdentOrType(): [p, node]; the node is Nil when no type is found.
tryIdentOrType(P) ==
    IF P.tok \in {"Any", "Bool", "Void"}
    THEN Let([P1 \in {next(P)} |->
             [p |-> P1,
              node |-> [kind |-> "Ident", NamePos |-> P1.pos,
                        Name |-> TokenString(P1.tok)]]
         ])
    ELSE IF P.tok = "Ident" THEN parseTypeName(P, Nil)
    ELSE [p |-> P, node |-> Nil]

\* A BadExpr from pos to the token errorExpected(pos, msg) and
\* advance(exprEnd) end at: [p, node].
badExpr(P, msg) ==
    Let([P1 \in {skipTo(P, msg, exprEnd)} |->
        [p |-> P1, node |-> [kind |-> "BadExpr", From |-> P.pos, To |-> P1.pos]]
    ])

\* parser.parseType(): [p, node].
parseType(P) ==
    Let([typ \in {tryIdentOrType(P)} |->
        IF typ.node # Nil THEN typ ELSE badExpr(P, Chars("type"))
    ])

\* The package names parsePackageDecl refuses.
reservedNames ==
    {Chars("builtin"), Chars("init"), Chars("internal"), Chars("vendor")}

\* The switch of parsePackageDecl over the package name.
checkPackageName(P, name) ==
    IF name = Chars("_")
    THEN error(P, P.pos, Chars("invalid package name _"))
    ELSE IF name \in reservedNames
    THEN error(P, P.pos, Chars("package name '") \o name \o Chars("' is reserved"))
    ELSE P

\* parser.parsePackageDecl(): [p, doc, pos, ident].
parsePackageDecl(P) ==
    Let([pkg \in {expect(P, "Package")} |->
    Let([id \in {parseIdent(pkg.p)} |->
    Let([P1 \in {checkPackageName(id.p, id.node.Name)} |->
        [p |-> expectSemi(P1).p, doc |-> P.leadComment, pos |-> pkg.pos,
         ident |-> id.node]
    ])])])

\* parser.parseConstDecl() and parser.parseVarDecl(), which differ in the
\* keyword and the node only: [p, node].
parseValueDecl(P, keyword, kind) ==
    Let([kw \in {expect(P, keyword)} |->
    Let([name \in {parseIdent(kw.p)} |->
    Let([typ \in {tryIdentOrType(name.p)} |->
    Let([assign \in {expect(typ.p, "Assign")} |->
    Let([value \in {parseIdent(assign.p)} |->
    Let([semi \in {expectSemi(value.p)} |->
        [p |-> semi.p,
         node |-> [kind |-> kind, Doc |-> P.leadComment, Name |-> name.node,
                   Type |-> typ.node, Value |-> value.node,
                   Comment |-> semi.comment]]
    ])])])])])])

parseConstDecl(P) == parseValueDecl(P, "Const", "ConstDecl")

parseVarDecl(P) == parseValueDecl(P, "Var", "VarDecl")

\* The name of an import, if any: [p, node].
importName(P) ==
    IF P.tok = "Ident" THEN parseIdent(P)
    ELSE IF P.tok = "Period"
    THEN [p |-> next(P),
          node |-> [kind |-> "Ident", NamePos |-> P.pos, Name |-> Chars(".")]]
    ELSE [p |-> P, node |-> Nil]

\* The path of an import declared at pos: [p, path].
importPath(P, pos) ==
    IF P.tok = "String" THEN [p |-> next(P), path |-> P.lit]
    ELSE IF IsLiteral(P.tok)
    THEN Let([P1 \in {error(P, pos, Chars("import path must be a string"))} |->
             [p |-> next(P1), path |-> <<>>]])
    ELSE Let([P1 \in {error(P, pos, Chars("missing import path"))} |->
             [p |-> advance(P1, exprEnd), path |-> <<>>]])

\* parser.parseImportDecl(): [p, node].
parseImportDecl(P) ==
    Let([imp \in {expect(P, "Import")} |->
    Let([id \in {importName(imp.p)} |->
    Let([path \in {importPath(id.p, imp.pos)} |->
    Let([semi \in {expectSemi(path.p)} |->
        [p |-> semi.p,
         node |-> [kind |-> "ImportDecl", Doc |-> P.leadComment, Name |-> id.node,
                   Path |-> [kind |-> "BasicLit", ValuePos |-> imp.pos,
                             Kind |-> "String", Value |-> path.path],
                   Comment |-> semi.comment, EndPos |-> NoPos]]
    ])])])])

\* parser.parseFieldDecl(): [p, node].
RECURSIVE fieldNames(_, _)
fieldNames(P, names) ==
    IF P.tok = "Comma"
    THEN Let([P1 \in {next(P)} |->
         Let([id \in {parseIdent(P1)} |->
             fieldNames(id.p, Append(names, id.node))
         ])])
    ELSE [p |-> P, names |-> names]

\* The names and the type of a field: [p, names, node].
fieldType(P) ==
    IF P.tok = "Ident"
    THEN Let([first \in {parseIdent(P)} |->
         Let([ids \in {fieldNames(first.p, <<first.node>>)} |->
         Let([typ \in {parseType(ids.p)} |->
             [p |-> typ.p, names |-> ids.names, node |-> typ.node]
         ])])])
    ELSE Let([bad \in {badExpr(P, Chars("field name"))} |->
             [p |-> bad.p, names |-> <<>>, node |-> bad.node]])

parseFieldDecl(P) ==
    Let([typ \in {fieldType(P)} |->
    Let([semi \in {expectSemi(typ.p)} |->
        [p |-> semi.p,
         node |-> [kind |-> "Field", Doc |-> P.leadComment, Names |-> typ.names,
                   Type |-> typ.node, Comment |-> semi.comment]]
    ])])

\* parser.parseStructDecl(): [p, node].
RECURSIVE structFields(_, _)
structFields(P, list) ==
    IF P.tok = "Ident"
    THEN Let([field \in {parseFieldDecl(P)} |->
             structFields(field.p, Append(list, field.node))])
    ELSE [p |-> P, list |-> list]

parseStructDecl(P) ==
    Let([kw \in {expect(P, "Struct")} |->
    Let([name \in {parseIdent(kw.p)} |->
    Let([leftBrace \in {expect(name.p, "LeftBrace")} |->
    Let([fields \in {structFields(leftBrace.p, <<>>)} |->
    Let([rightBrace \in {expect(fields.p, "RightBrace")} |->
        [p |-> expectSemi(rightBrace.p).p,
         node |-> [kind |-> "StructDecl", Doc |-> P.leadComment, Name |-> name.node,
                   Fields |-> [kind |-> "FieldList", Opening |-> leftBrace.pos,
                               List |-> fields.list, Closing |-> rightBrace.pos],
                   Comment |-> Nil]]
    ])])])])])

\* parser.parseTypedefDecl(): [p, node].
parseTypedefDecl(P) ==
    Let([kw \in {expect(P, "Typedef")} |->
    Let([name \in {parseIdent(kw.p)} |->
    Let([P1 \in {IF name.p.tok = "Assign" THEN next(name.p) ELSE name.p} |->
    Let([typ \in {parseType(P1)} |->
    Let([semi \in {expectSemi(typ.p)} |->
        [p |-> semi.p,
         node |-> [kind |-> "TypedefDecl", Doc |-> P.leadComment, Name |-> name.node,
                   Assign |-> IF name.p.tok = "Assign" THEN name.p.pos ELSE NoPos,
                   Type |-> typ.node, Comment |-> semi.comment]]
    ])])])])])

\* parser.parseStmtList() and parser.parseBlockStmt(): [p, node].
parseStmtList(P) == [p |-> P, list |-> <<>>]

parseBlockStmt(P) ==
    Let([leftBrace \in {expect(P, "LeftBrace")} |->
    Let([list \in {parseStmtList(leftBrace.p)} |->
    Let([rightBrace \in {expect(list.p, "RightBrace")} |->
        [p |-> rightBrace.p,
         node |-> [kind |-> "BlockStmt", LeftBrace |-> leftBrace.pos,
                   List |-> list.list, RightBrace |-> rightBrace.pos]]
    ])])])

\* A BadDecl from pos to the token errorExpected(pos, "declaration") and
\* advance(sync) end at: [p, node].
badDecl(P, sync) ==
    Let([P1 \in {skipTo(P, Chars("declaration"), sync)} |->
        [p |-> P1, node |-> [kind |-> "BadDecl", From |-> P.pos, To |-> P1.pos]]
    ])

\* parser.parseDecl(sync) for every token but func: [p, node].
parseDecl(P, sync) ==
    CASE P.tok = "Const" -> parseConstDecl(P)
      [] P.tok = "Import" -> parseImportDecl(P)
      [] P.tok = "Struct" -> parseStructDecl(P)
      [] P.tok = "Typedef" -> parseTypedefDecl(P)
      [] P.tok = "Var" -> parseVarDecl(P)
      [] OTHER -> badDecl(P, sync)

\* readSource(filename, src).  src is the record [kind, text, fails]: the
\* dynamic type of the argument, the text it holds or yields, and whether
\* reading it fails; a kind that is none of the cases of the type switch
\* falls through to os.ReadFile(filename), as a nil src does.
readSource(filename, src) ==
    CASE src.kind = "string" -> [text |-> src.text, err |-> Nil]
      [] src.kind = "bytes" -> [text |-> src.text, err |-> Nil]
      [] src.kind = "Buffer" -> [text |-> src.text, err |-> Nil]
      [] src.kind = "nilBuffer" ->
           [text |-> <<>>, err |-> [kind |-> "error", msg |-> "invalid source"]]
      [] src.kind \in {"Reader", "FS"} ->
           IF src.fails THEN [text |-> <<>>, err |-> [kind |-> "error", msg |-> "read"]]
           ELSE [text |-> src.text, err |-> Nil]
      [] OTHER ->
           IF src.fails THEN [text |-> <<>>, err |-> [kind |-> "error", msg |-> "open"]]
           ELSE [text |-> src.text, err |-> Nil]

\* var p parser, then p.init(file, src) up to the call of p.next(): the
\* lexer is lexRun[1].x and the errors it reported so far are in p.errors.
newParser(X) ==
    [scanner |-> X, errors |-> X.errs, comments |-> <<>>,
     leadComment |-> Nil, lineComment |-> Nil,
     pos |-> NoPos, tok |-> "Illegal", lit |-> <<>>,
     syncPos |-> NoPos, syncCount |-> 0,
     exprLevel |-> 0, inRHS |-> FALSE, nestLevel |-> 0,
     scanIx |-> 0, scanOdd |-> FALSE]

\* The loop of parseFile over the leading imports: [p, list].
RECURSIVE leadingImports(_, _)
leadingImports(P, list) ==
    IF P.tok = "Import"
    THEN Let([decl \in {parseImportDecl(P)} |->
             leadingImports(decl.p, Append(list, decl.node))])
    ELSE [p |-> P, list |-> list]

\* The File the deferred function of ParseFile makes when parseFile
\* returned nil.
placeholderFile ==
    [kind |-> "File", FileStart |-> NoPos, FileEnd |-> NoPos, Doc |-> Nil,
     Package |-> NoPos,
     PkgName |-> [kind |-> "Ident", NamePos |-> NoPos, Name |-> <<>>],
     Imports |-> <<>>, Decls |-> <<>>, Comments |-> <<>>]

\* token.Pos(file.Base()) and token.Pos(file.Base() + file.Size()).
fileStart(file) == file.base

fileEndNoBase(file) == file.size

fileEnd(file) == file.base + file.size

-----------------------------------------------------------------------------
(* The registry as a state machine: any sequence of AddFile and File calls *)
(* on one FileSet.                                                         *)

\* The variables of the other machines keep these values.
NoSource == <<>>
NoLexer == [ch |-> eof]
NoOut == [tok |-> "none"]
NoRun == <<>>
NoCall == [pc |-> "idle"]

LexIdle ==
    /\ text = NoSource
    /\ lx = NoLexer
    /\ out = NoOut
    /\ trace = <<>>

ParseIdle ==
    /\ lexRun = NoRun
    /\ ps = NoCall

FsInit ==
    /\ fset = NewFileSet
    /\ fsOp = [op |-> "NewFileSet"]
    /\ LexIdle
    /\ ParseIdle

\* s.AddFile(name, base, size), with a negative, a too small, an exact and a
\* larger base, and a negative or a legal size.
AddFile ==
    /\ Len(fset.files) < MaxFiles
    /\ \E base \in -1..(fset.base + MaxGap), size \in -1..MaxSize :
         LET r == AddFileResult(fset, "f", base, size)
         IN  /\ fset' = r.s
             /\ fsOp' = [op |-> "AddFile", base |-> base, size |-> size,
                         nextBase |-> fset.base, f |-> r.f,
                         panic |-> r.panic]
             /\ UNCHANGED <<lexVars, parseVars>>

\* s.File(p), for every position up to one past the registry's range.
File ==
    \E q \in -1..(fset.base + 1) :
        LET r == FileSetFile(fset, q)
        IN  /\ fset' = r.s
            /\ fsOp' = [op |-> "File", p |-> q, cache |-> fset.last,
                        f |-> r.f]
            /\ UNCHANGED <<lexVars, parseVars>>

FsNext == AddFile \/ File

Spec == FsInit /\ [][FsNext]_vars

-----------------------------------------------------------------------------
(* The lexer as a state machine: a Lexer is created for a source text and  *)
(* Scan is called on it again and again.                                   *)

\* The characters the generated source texts are made of.
LexAlphabet == {"a", "1", " ", "\n", "/", "*", ")", "+"}

RECURSIVE SeqsUpTo(_, _)
SeqsUpTo(S, n) ==
    IF n = 0 THEN {<<>>}
    ELSE LET shorter == SeqsUpTo(S, n - 1)
         IN  shorter \cup {Append(t, c) : t \in {u \in shorter : Len(u) = n - 1}, c \in S}

GeneratedSources == SeqsUpTo(LexAlphabet, MaxSrcLen)

\* the seed scenario "package p\n"
SrcPackageP ==
    <<"p", "a", "c", "k", "a", "g", "e", " ", "p", "\n">>

\* a comment holding a newline, after an identifier
SrcCommentNL ==
    <<"a", "/", "*", "\n", "*", "/", "\n">>

\* a comment holding newlines, and newlines after it
SrcCommentNLs ==
    <<")", "/", "*", "\n", "\n", "*", "/", "\n", "\n", "+", "a">>

\* an unterminated comment holding a newline
SrcCommentOpen ==
    <<"a", " ", "/", "*", "\n">>

\* a line comment ending in CR LF
SrcLineComment ==
    <<"a", "/", "/", "c", "\r", "\n", "1">>

\* carriage returns in a comment
SrcCommentCR ==
    <<"/", "*", "\r", "*", "\r", "/", "*", "/", "a">>

\* a string with an escape and two rune literals
SrcString ==
    <<"\"", "a", "\\", "\"", "b", "\"", " ", "'", "c", "'", " ", "'", "\\", "n", "'">>

\* a raw string holding a carriage return
SrcRawString ==
    <<"x60", "a", "\r", "b", "x60">>

\* an unterminated string and an unterminated rune
SrcOpenString ==
    <<"\"", "a", "\n", "'", "b">>

\* invalid escapes
SrcEscapes ==
    <<"'", "\\", "x", "4", "g", "'", " ", "'", "\\", "u", "D", "8", "0", "0", "'", " ", "'", "\\", "q", "'">>

\* numbers with and without digits
SrcNumbers ==
    <<"0", "x", " ", "0", "b", "1", "2", " ", "1", "_", ".", "5", " ", "0", "o", "7", ".", " ", ".", "5">>

\* an illegal character and a NUL byte
SrcIllegal ==
    <<"a", " ", "#", " ", "x00", "\n", ";">>

\* a UTF-16 byte order mark
SrcUTF16 ==
    <<"xFF", "xFE", "a">>

\* a byte order mark at the start and one further on
SrcBOM ==
    <<"xEF", "xBB", "xBF", "a", "xEF", "xBB", "xBF", "xFF">>

\* periods and an ellipsis
SrcDots ==
    <<"a", ".", ".", ".", "b", ".", "c", ".", ".">>

\* spaces, tabs and carriage returns before a newline and the end
SrcTabs ==
    <<"a", " ", "\t", "\r", "\n", " ", "\t", "\r">>

ExampleSources ==
    {SrcPackageP, SrcCommentNL, SrcCommentNLs, SrcCommentOpen,
     SrcLineComment, SrcCommentCR, SrcString, SrcRawString,
     SrcOpenString, SrcEscapes, SrcNumbers, SrcIllegal,
     SrcUTF16, SrcBOM, SrcDots, SrcTabs}

\* The text of every operator and keyword of the token table.
TokenSources == {tokens[t] : t \in {u \in DOMAIN tokens : IsOperator(u) \/ IsKeywordToken(u)}}

LexSources == GeneratedSources \cup ExampleSources \cup TokenSources

\* The bases of the file the source is registered as.
LexBases == {1, 3}

LexInit ==
    /\ fset = NewFileSet
    /\ fsOp = [op |-> "none"]
    /\ LexIdle
    /\ ParseIdle

\* l := NewLexer(file, src, err), for a file of the size of src.
LexNew ==
    /\ lx = NoLexer
    /\ \E src \in LexSources, base \in LexBases, noNewSemi \in BOOLEAN :
         \* the testing mode is tried on the texts of the token table only
         /\ noNewSemi => src \in TokenSources
         /\ text' = src
         /\ lx' = NewLexer(src, [name |-> "", base |-> base, size |-> Len(src),
                                 lines |-> <<0>>], noNewSemi)
    /\ UNCHANGED <<out, trace, fsVars, parseVars>>

\* pos, tok, lit := l.Scan().  out keeps the result with the lexer's
\* insertSemi, offset, nlPos and number of errors before the call and the
\* token and position of the call before; trace is the list of results up
\* to the first EOF, each with the insertSemi the call began with, the
\* Position its pos stood for when it was returned and the length of the
\* line table then.
LexScan ==
    /\ lx # NoLexer
    /\ LET r == Scan(text, lx)
       IN
        /\ lx' = r.x
        /\ out' = [pos |-> r.pos, tok |-> r.tok, lit |-> r.lit,
                   insertSemi |-> lx.insertSemi, offset |-> lx.offset,
                   nlPos |-> lx.nlPos, prev |-> out.tok,
                   prevPos |-> IF out = NoOut THEN NoPos ELSE out.pos,
                   errs |-> Len(lx.errs)]
        /\ trace' = IF trace # <<>> /\ Last(trace).tok = "EOF" THEN trace
                    ELSE Append(trace, [pos |-> r.pos, tok |-> r.tok, lit |-> r.lit,
                                        semi |-> lx.insertSemi,
                                        at |-> FilePosition(r.x.file, r.pos),
                                        lines |-> Len(r.x.file.lines)])
        /\ UNCHANGED <<text, fsVars, parseVars>>

LexNext == LexNew \/ LexScan

LexSpec == LexInit /\ [][LexNext]_vars

-----------------------------------------------------------------------------
(* One call of ParseFile as a state machine.  ps is the call: pc is where   *)
(* it stands, fi the index in fset.files of the File it registered, p the  *)
(* parser, and the other fields are the locals of ParseFile, parseFile and *)
(* parseFuncDecl.  The File of the lexer is the File of the registry, so   *)
(* every step writes the lexer's copy back to fset.files[fi].              *)

ParseFilename == "p.st"

\* The source texts: those of TestParseDecl and texts that end early, hold
\* comments or hold lexical errors.
ParseTexts ==
    {Chars(""), Chars("package p\n"), Chars("package p;"), Chars("package _;"),
     Chars("package init;"), Chars("package 123;"), Chars("# package p;"),
     Chars("package p # ;"), Chars("package"), Chars("// a\npackage p // b\n"),
     Chars("package p;const a = b;"), Chars("package p;const a b = c;"),
     Chars("package p;const X any;"), Chars("package p;const a"),
     Chars("package p;const a 10;"),
     Chars("package p;func f() { } ;"), Chars("package p;func foo() string {}"),
     Chars("package p;func fun() (foo,bar) {}"), Chars("package p;func (R) foo(){}"),
     Chars("package p;func f()\n{};"), Chars("package p;func f()\nfoo"),
     Chars("package p;func f("), Chars("package p;func f(a"),
     Chars("package p;func f() ("), Chars("package p;func"),
     Chars("package p;import \"a\""), Chars("package p;import foo \"bar\""),
     Chars("package p;import . \"baz\""), Chars("package p;import _ ;"),
     Chars("package p;import baz"), Chars("package p;import _ 1"),
     Chars("package p;import \"bar\"; var _ a = a; import \"baz\""),
     Chars("package p;var a = b;import \"x\";import \"y\""),
     Chars("package p;struct foo{}"), Chars("package p;struct _{ A int }"),
     Chars("package p;struct s{ A, B int; C }"), Chars("package p;struct foo bar{}"),
     Chars("package p;typedef foo bar"), Chars("package p;typedef T = int"),
     Chars("package p;typedef T ="),
     Chars("package p;var a = b;"), Chars("package p;var a bool = empty;"),
     Chars("package p;var a a.b = c, d"),
     Chars("package p;) ) var a = b"), Chars("package p;1 2"),
     Chars("package p\n// d\nvar a = b // l\n/* x\n*/ /* y */\n\n// z\n")}

\* The src arguments: every text as a string, and one text as each of the
\* other kinds, read with and without failure.
ParseInputs ==
    {[kind |-> "string", text |-> t, fails |-> FALSE] : t \in ParseTexts}
    \cup {[kind |-> k, text |-> Chars("package p\n"), fails |-> FALSE] :
            k \in {"bytes", "Buffer", "nilBuffer", "Reader", "FS", "nil"}}
    \cup {[kind |-> k, text |-> Chars("package p\n"), fails |-> TRUE] :
            k \in {"Reader", "FS", "nil"}}

\* The registries ParseFile is called with: a new one, and one that holds
\* a file already.
ParseRegistries == {NewFileSet, AddFileResult(NewFileSet, "f", -1, MaxSize).s}

ParseInit ==
    /\ fset \in ParseRegistries
    /\ fsOp = [op |-> "none"]
    /\ LexIdle
    /\ ParseIdle

\* The parser's file, as the registry holds it after the step to q.
parserStep(q) ==
    /\ ps' = q
    /\ fset' = [fset EXCEPT !.files[q.fi] = q.p.scanner.file]
    /\ UNCHANGED <<fsOp, lexVars, lexRun>>

\* f, err := ParseFile(fset, filename, src) up to p.init: the source is
\* read and, unless that fails, registered and handed to a new lexer.
ParseFileCall ==
    /\ ps.pc = "idle"
    /\ \E src \in ParseInputs :
       \E rs \in {readSource(ParseFilename, src)} :
         IF rs.err # Nil
         THEN /\ ps' = [pc |-> "returned", src |-> src, read |-> FALSE,
                        f |-> Nil, err |-> rs.err]
              /\ UNCHANGED <<fset, lexRun>>
         ELSE \E r \in {AddFileResult(fset, ParseFilename, -1, Len(rs.text))} :
                IF r.panic # ""
                THEN /\ ps' = [pc |-> "panic", src |-> src, read |-> TRUE]
                     /\ UNCHANGED <<fset, lexRun>>
                ELSE /\ fset' = r.s
                     /\ lexRun' = ScanRun(rs.text, r.s.files[r.f])
                     /\ ps' = [pc |-> "parseFile", src |-> src, read |-> TRUE,
                               text |-> rs.text, fi |-> r.f, f |-> Nil,
                               err |-> Nil]
    /\ UNCHANGED <<fsOp, lexVars>>

\* p.init(file, text) and parseFile() up to the loop over the declarations.
ParseFileBegin ==
    /\ ps.pc = "parseFile"
    /\ \E P1 \in {next(newParser(lexRun[1].x))} :
         IF Len(P1.errors) # 0
         THEN parserStep([ps EXCEPT !.pc = "defer"] @@ [p |-> P1])
         ELSE \E pkg \in {parsePackageDecl(P1)} :
                IF Len(pkg.p.errors) # 0
                THEN parserStep([ps EXCEPT !.pc = "defer"] @@ [p |-> pkg.p])
                ELSE \E imp \in {leadingImports(pkg.p, <<>>)} :
                       parserStep([ps EXCEPT !.pc = "decls"]
                                  @@ [p |-> imp.p, doc |-> pkg.doc, pos |-> pkg.pos,
                                      ident |-> pkg.ident, decls |-> imp.list,
                                      imports |-> imp.list, prev |-> "Import"])

\* A variant of lateImport that complains about every import.
lateImportEach(tok, prev) == tok = "Import"

\* The condition under which the loop over the declarations complains: the
\* declaration is an import and the one before it was none.
lateImport(tok, prev) == tok = "Import" /\ prev # "Import"

\* One turn of the loop over the declarations, for a declaration that is
\* no function.
ParseDecl ==
    /\ ps.pc = "decls"
    /\ ps.p.tok \notin {"EOF", "Func"}
    /\ \E P1 \in {IF lateImport(ps.p.tok, ps.prev)
                   THEN error(ps.p, ps.p.pos,
                              Chars("imports must appear before other declarations"))
                   ELSE ps.p} :
       \E decl \in {parseDecl(P1, declStart)} :
             parserStep([ps EXCEPT !.p = decl.p,
                                   !.prev = ps.p.tok,
                                   !.decls = Append(@, decl.node),
                                   !.imports = IF decl.node.kind = "ImportDecl"
                                               THEN Append(@, decl.node) ELSE @])

\* The receiver of parseFuncDecl(), if any: [p, node].
receiver(P) ==
    IF P.tok = "LeftParen"
    THEN Let([P1 \in {next(P)} |->
         Let([id \in {parseIdent(P1)} |->
             [p |-> expect(id.p, "RightParen").p, node |-> id.node]
         ])])
    ELSE [p |-> P, node |-> Nil]

\* The body of parseFuncDecl(): [p, node].
block(P) ==
    Let([body \in {parseBlockStmt(P)} |->
        [p |-> expectSemi(body.p).p, node |-> body.node]
    ])

funcBody(P) ==
    IF P.tok = "Semicolon"
    THEN Let([P1 \in {next(P)} |->
             IF P1.tok = "LeftBrace"
             THEN Let([P2 \in {error(P1, P1.pos,
                                     Chars("unexpected semicolon or newline before {"))} |->
                      block(P2)])
             ELSE [p |-> expect(P1, "LeftBrace").p, node |-> Nil]
         ])
    ELSE block(P)

\* The turn of the loop for a function, up to the loop of
\* parseParameterList: parseFuncDecl() through the '(' of the parameters.
ParseFuncDeclBegin ==
    /\ ps.pc = "decls"
    /\ ps.p.tok = "Func"
    /\ \E func \in {expect(ps.p, "Func")} :
       \E recv \in {receiver(func.p)} :
       \E name \in {parseIdent(recv.p)} :
       \E leftParen \in {expect(name.p, "LeftParen")} :
         parserStep([fn |-> [doc |-> ps.p.leadComment, pos |-> func.pos,
                             recv |-> recv.node, name |-> name.node,
                             stage |-> "params", leftParen |-> leftParen.pos,
                             params |-> Nil, results |-> Nil]]
                    @@ [ps EXCEPT !.pc = "paramList", !.p = leftParen.p,
                                  !.prev = "Func"])

\* One turn of the loop of parseParameterList: p.next().
ParameterListNext ==
    /\ ps.pc = "paramList"
    /\ ps.p.tok # "RightParen"
    /\ parserStep([ps EXCEPT !.p = next(ps.p)])

\* The end of parseParameters(), and parseResult() up to the loop of its
\* parseParameterList or to its end.
ParametersEnd ==
    /\ ps.pc = "paramList"
    /\ ps.p.tok = "RightParen"
    /\ \E rightParen \in {expect(ps.p, "RightParen")} :
       \E list \in {[kind |-> "FieldList", Opening |-> ps.fn.leftParen,
                     List |-> <<>>, Closing |-> rightParen.pos]} :
             IF ps.fn.stage = "results"
             THEN parserStep([ps EXCEPT !.pc = "funcBody", !.p = rightParen.p,
                                        !.fn.results = list])
             ELSE IF rightParen.p.tok = "LeftParen"
             THEN \E leftParen \in {expect(rightParen.p, "LeftParen")} :
                    parserStep([ps EXCEPT !.p = leftParen.p,
                                          !.fn.params = list,
                                          !.fn.stage = "results",
                                          !.fn.leftParen = leftParen.pos])
             ELSE \E typ \in {tryIdentOrType(rightParen.p)} :
                    parserStep([ps EXCEPT
                        !.pc = "funcBody", !.p = typ.p, !.fn.params = list,
                        !.fn.results =
                            IF typ.node # Nil
                            THEN [kind |-> "FieldList", Opening |-> NoPos,
                                  List |-> <<[kind |-> "Field", Doc |-> Nil,
                                              Names |-> <<>>, Type |-> typ.node,
                                              Comment |-> Nil]>>,
                                  Closing |-> NoPos]
                            ELSE Nil])

\* The rest of parseFuncDecl(): the body; the declaration is appended.
ParseFuncBody ==
    /\ ps.pc = "funcBody"
    /\ \E body \in {funcBody(ps.p)} :
         parserStep([ps EXCEPT
             !.pc = "decls", !.p = body.p,
             !.decls = Append(@, [kind |-> "FuncDecl", Doc |-> ps.fn.doc,
                                  Recv |-> ps.fn.recv, Name |-> ps.fn.name,
                                  Type |-> [kind |-> "FuncType", Func |-> ps.fn.pos,
                                            Params |-> ps.fn.params,
                                            Results |-> ps.fn.results],
                                  Body |-> body.node])])

\* The end of parseFile(): the File of the declarations parsed.
ParseFileEnd ==
    /\ ps.pc = "decls"
    /\ ps.p.tok = "EOF"
    /\ parserStep([ps EXCEPT
           !.pc = "defer",
           !.f = [kind |-> "File", FileStart |-> NoPos, FileEnd |-> NoPos,
                  Doc |-> ps.doc, Package |-> ps.pos, PkgName |-> ps.ident,
                  Imports |-> ps.imports, Decls |-> ps.decls,
                  Comments |-> ps.p.comments]])

\* The deferred function of ParseFile, and the return.
ParseFileDefer ==
    /\ ps.pc = "defer"
    /\ \E f \in {IF ps.f = Nil THEN placeholderFile ELSE ps.f} :
       \E errors \in {SortErrors(ps.p.errors)} :
         parserStep([ps EXCEPT
             !.pc = "returned",
             !.f = [f EXCEPT !.FileStart = fileStart(parserFile(ps.p)),
                             !.FileEnd = fileEnd(parserFile(ps.p))],
             !.p.errors = errors,
             !.err = ErrorListErr(errors)])

ParseStep ==
    \/ ParseFileBegin
    \/ ParseDecl
    \/ ParseFuncDeclBegin
    \/ ParameterListNext
    \/ ParametersEnd
    \/ ParseFuncBody
    \/ ParseFileEnd
    \/ ParseFileDefer

ParseNext == ParseFileCall \/ ParseStep

\* A call that began goes on: the steps of ParseFile are taken as long as
\* one is possible.  Nothing obliges a caller to call.
ParseSpec == ParseInit /\ [][ParseNext]_vars /\ WF_vars(ParseStep)

-----------------------------------------------------------------------------
(* Properties of the registry.                                             *)

\* The files of the list whose interval [base, base+size] holds p.
FilesHolding(files, q) ==
    {i \in 1..Len(files) : files[i].base <= q /\ q <= files[i].base + files[i].size}

\* C1: after any sequence of AddFile and File calls, File(p) is nil when
\* p = 0 or no file's interval holds p, and otherwise it is the one file
\* with base <= p <= base+size: the result of a search over all files,
\* whatever the last-accessed cache held.
C1_FileLookup ==
    fsOp.op = "File" =>
        LET holding == FilesHolding(fset.files, fsOp.p)
        IN  /\ Cardinality(holding) <= 1
            /\ IF fsOp.p = NoPos \/ holding = {}
               THEN fsOp.f = NilFile
               ELSE holding = {fsOp.f}

\* A lookup the cache did not answer: found by the search, in a registry of
\* several files, and not the file the cache held.
C1_Witness ==
    /\ fsOp.op = "File"
    /\ Len(fset.files) = MaxFiles
    /\ fsOp.f # NilFile
    /\ fsOp.cache # NilFile
    /\ fsOp.f # fsOp.cache

\* C2: a fresh registry has next_base = 1; a successful AddFile(name, B, S),
\* with next_base for B when B < 0, gives the new file the interval
\* [B, B+S] and sets next_base to B+S+1; so the files' intervals are
\* pairwise disjoint, in strictly increasing base order, and none holds 0.
C2_AddFileIntervals ==
    /\ fsOp.op = "NewFileSet" => fset.base = 1
    /\ (fsOp.op = "AddFile" /\ fsOp.panic = "") =>
           LET B == IF fsOp.base < 0 THEN fsOp.nextBase ELSE fsOp.base
               f == fset.files[fsOp.f]
           IN  /\ fsOp.f = Len(fset.files)
               /\ f.base = B
               /\ f.size = fsOp.size
               /\ fset.base = B + fsOp.size + 1
    /\ \A i \in 1..Len(fset.files) :
           /\ fset.files[i].base >= 1
           /\ \A j \in (i + 1)..Len(fset.files) :
                  fset.files[i].base + fset.files[i].size < fset.files[j].base

\* Three files were added, one at a base the registry chose and one at an
\* explicit base above next_base.
C2_Witness ==
    /\ fsOp.op = "AddFile"
    /\ fsOp.panic = ""
    /\ fsOp.base > fsOp.nextBase
    /\ Len(fset.files) = MaxFiles
    /\ fset.files[1].base = 1
    /\ fset.files[2].base = fset.files[1].base + fset.files[1].size + 1

-----------------------------------------------------------------------------
(* Properties of the lexer.                                                *)

\* A call of Scan has returned.
Scanned == out.tok # "none"

\* The position after the last byte of the lexer's file.
LexEnd == lx.file.base + lx.file.size

\* A semicolon made up for a newline or for the end of the source.
AutoSemi(t) == t.tok = "Semicolon" /\ t.lit = <<"\n">>

\* The offset of the first character of s at or after offset i that is no
\* space, tab or carriage return; Len(s) when there is none.
RECURSIVE AfterBlanks(_, _)
AfterBlanks(s, i) ==
    IF i < Len(s) /\ s[i + 1] \in {" ", "\t", "\r"}
    THEN AfterBlanks(s, i + 1)
    ELSE i

\* The offset of the first newline of s at or after offset i.
FirstLF(s, i) ==
    CHOOSE k \in i..(Len(s) - 1) :
        /\ s[k + 1] = "\n"
        /\ \A m \in i..(k - 1) : s[m + 1] # "\n"

\* The tokens the claims name as setting the insert-semi flag.
FlagTokens ==
    {"Ident", "Int", "Float", "Char", "String", "Break", "Continue",
     "Fallthrough", "Return", "RightParen", "RightBrack", "RightBrace"}

\* C3: for every source, Scan returns EOF after finitely many calls, at
\* most 2*size+2 of them (trace holds every result up to the first EOF);
\* every later call returns EOF again, at the position base+size; and every
\* call that returns neither EOF, nor a deferred semicolon, nor the semicolon
\* made up at the end of the source, moves the lexer at least one byte
\* forward.
C3_ScanTerminates ==
    /\ Len(trace) <= 2 * Len(text) + 2
    /\ Scanned =>
           /\ out.tok = "EOF" => out.pos = LexEnd
           /\ out.prev = "EOF" => out.tok = "EOF"
           /\ (/\ out.tok # "EOF"
               /\ out.nlPos = NoPos
               /\ ~(AutoSemi(out) /\ out.pos = LexEnd))
              => lx.offset > out.offset

\* EOF was returned a second time, for a source of several tokens that ends
\* in a made-up semicolon.
C3_Witness ==
    /\ out.tok = "EOF"
    /\ out.prev = "EOF"
    /\ Len(trace) >= 4
    /\ AutoSemi(trace[Len(trace) - 1])
    /\ lx.offset = Len(text)

\* C4 as stated: outside the testing mode, after a call of Scan the flag
\* insertSemi is set exactly when the token returned is one of FlagTokens.
C4_FlagIffToken ==
    (Scanned /\ ~lx.noNewSemi) =>
        (lx.insertSemi <=> out.tok \in FlagTokens)

\* C4: outside the testing mode, after a call of Scan the flag insertSemi is
\* set exactly when the token returned is one of FlagTokens, or is a COMMENT
\* or ILLEGAL token returned by a call that began with the flag set and left
\* no semicolon deferred (a comment with a newline in it defers one and
\* clears the flag).
C4_FlagAfterScan ==
    (Scanned /\ ~lx.noNewSemi) =>
        (lx.insertSemi <=>
            \/ out.tok \in FlagTokens
            \/ /\ out.tok \in {"Comment", "Illegal"}
               /\ out.insertSemi
               /\ lx.nlPos = NoPos)

\* A comment was returned by a call that began with the flag set, and the
\* flag is still set.
C4_Witness ==
    /\ out.tok = "Comment"
    /\ ~lx.noNewSemi
    /\ out.insertSemi
    /\ lx.insertSemi

\* The tokens of "package p\n" in a file of base 1.
PackagePTokens ==
    <<[pos |-> 1, tok |-> "Package"],
      [pos |-> 9, tok |-> "Ident", lit |-> <<"p">>],
      [pos |-> 10, tok |-> "Semicolon", lit |-> <<"\n">>],
      [tok |-> "EOF"]>>

\* C5: a call of Scan that begins with insertSemi set and finds, after the
\* spaces, tabs and carriage returns, a newline or the end of the source
\* returns a semicolon of literal "\n" at the position of that newline (at
\* base+size for the end) and clears the flag; a call that begins with the
\* flag clear returns no token for a newline of the source; and
\* "package p\n" at base 1 gives (1, PACKAGE), (9, IDENT "p"),
\* (10, ';' "\n"), EOF.
C5_SemicolonAtNewline ==
    /\ (Scanned /\ out.insertSemi) =>
           LET k == AfterBlanks(text, out.offset)
           IN  (k = Len(text) \/ text[k + 1] = "\n") =>
                   /\ AutoSemi(out)
                   /\ out.pos = lx.file.base + k
                   /\ ~lx.insertSemi
    /\ (Scanned /\ ~out.insertSemi /\ out.nlPos = NoPos) =>
           /\ ~AutoSemi(out)
           /\ out.pos < LexEnd => text[out.pos - lx.file.base + 1] # "\n"
    /\ (text = SrcPackageP /\ lx.file.base = 1) =>
           /\ Len(trace) <= Len(PackagePTokens)
           /\ \A i \in 1..Len(trace) :
                  \A field \in DOMAIN PackagePTokens[i] :
                      trace[i][field] = PackagePTokens[i][field]

\* "package p\n" at base 1 was scanned to its end: the third call began with
\* the flag set and returned the semicolon of the newline.
C5_Witness ==
    /\ text = SrcPackageP
    /\ lx.file.base = 1
    /\ Len(trace) = Len(PackagePTokens)
    /\ trace[3].semi
    /\ AutoSemi(trace[3])
    /\ Last(trace).tok = "EOF"

\* C6: when a call of Scan that began with insertSemi set returns a comment
\* with a newline in it, the next call returns a semicolon of literal "\n"
\* at the position of the first newline of the comment, and every later
\* made-up semicolon comes after another token of FlagTokens.
C6_CommentSemicolon ==
    \A i \in 1..Len(trace) :
        (/\ trace[i].tok = "Comment"
         /\ trace[i].semi
         /\ "\n" \in Range(trace[i].lit)) =>
            /\ i < Len(trace) =>
                   /\ AutoSemi(trace[i + 1])
                   /\ trace[i + 1].pos =
                          lx.file.base + FirstLF(text, trace[i].pos - lx.file.base)
            /\ \A j \in (i + 2)..Len(trace) :
                   AutoSemi(trace[j]) =>
                       \E k \in (i + 2)..(j - 1) : trace[k].tok \in FlagTokens

\* A comment with two newlines in it and two after it was scanned after ')':
\* the semicolon followed it, and the source was scanned to its end.
C6_Witness ==
    /\ text = SrcCommentNLs
    /\ Len(trace) >= 4
    /\ trace[2].tok = "Comment"
    /\ trace[2].semi
    /\ AutoSemi(trace[3])
    /\ Last(trace).tok = "EOF"

\* The keyword tokens: the band between keywordA and keywordZ.
KeywordBand == {t \in DOMAIN tokens : IsKeywordToken(t)}

\* C7: an identifier whose text is that of a keyword token k of the keyword
\* band (any, bool, ..., var, void) is scanned as k, and every other
\* identifier as IDENT.
C7_KeywordLookup ==
    (Scanned /\ (out.tok = "Ident" \/ out.tok \in KeywordBand)) =>
        IF \E k \in KeywordBand : tokens[k] = out.lit
        THEN tokens[out.tok] = out.lit
        ELSE out.tok = "Ident"

\* C8 as stated: the literal of an operator or keyword token is the text of
\* the token.
C8_CanonicalLiteral ==
    (Scanned /\ (IsOperator(out.tok) \/ IsKeywordToken(out.tok))) =>
        out.lit = tokens[out.tok]

\* C8: the literal of a keyword token is the text of the keyword; the
\* literal of a semicolon is ";" when the source has one and "\n" when the
\* lexer made it up; the literal of every other operator or delimiter token
\* is empty.
C8_OperatorLiteral ==
    /\ (Scanned /\ IsKeywordToken(out.tok)) => out.lit = tokens[out.tok]
    /\ (Scanned /\ IsOperator(out.tok)) =>
           IF out.tok = "Semicolon"
           THEN IF out.nlPos = NoPos /\ out.pos < LexEnd
                                     /\ text[out.pos - lx.file.base + 1] = ";"
                THEN out.lit = <<";">>
                ELSE out.lit = <<"\n">>
           ELSE out.lit = <<>>

\* An operator of three characters was returned, with an empty literal.
C8_Witness ==
    /\ out.tok = "ShlAssign"
    /\ text = tokens["ShlAssign"]
    /\ out.lit = <<>>

-----------------------------------------------------------------------------
(* Properties of ParseFile.                                                *)

\* C9: for every source text, with or without errors, a call of ParseFile
\* that read its source returns after finitely many calls of Scan, and it
\* never panics.
C9_ParseFileReturns ==
    /\ [](ps.pc # "panic")
    /\ (ps.pc = "parseFile") ~> (ps.pc = "returned")

\* The File the call registered for its source.
registered == fset.files[ps.fi]

\* The position the package clause ends at: that of the first semicolon,
\* or of the end of the source when it has none.
RECURSIVE clauseEndFrom(_)
clauseEndFrom(k) ==
    IF lexRun[k].tok \in {"Semicolon", "EOF"} THEN lexRun[k].pos
    ELSE clauseEndFrom(k + 1)

clauseEnd == clauseEndFrom(2)

\* An error is reported at or before the end of the package clause.
FailsByPackageClause ==
    /\ ps.err # Nil
    /\ \E i \in 1..Len(ps.err.list) :
         ps.err.list[i].Pos.Offset <= clauseEnd - registered.base

\* C10 as stated: every call of ParseFile returns a File that is not nil,
\* that starts at the base and ends at base+size of the File registered for
\* the source, and that has the placeholder PkgName and no declarations when
\* parsing fails at or before the package clause.
C10_AlwaysFile ==
    (ps.pc = "returned") =>
        /\ ps.f # Nil
        /\ ps.f.FileStart = registered.base
        /\ ps.f.FileEnd = registered.base + registered.size
        /\ FailsByPackageClause =>
               (ps.f.PkgName = placeholderFile.PkgName /\ ps.f.Decls = <<>>)

\* C10: a call of ParseFile that read its source and returns, returns a
\* File that is not nil, that starts at the base and ends at base+size of
\* the File registered for the source, whose size is the length of the
\* text, and that has the placeholder PkgName and no declarations when
\* parsing fails at or before the package clause; a call that cannot read
\* its source returns nil and the error, and registers no File.
C10_FileOfSourceRead ==
    (ps.pc = "returned") =>
        IF ps.read
        THEN /\ ps.f # Nil
             /\ registered.name = ParseFilename
             /\ registered.size = Len(ps.text)
             /\ ps.f.FileStart = registered.base
             /\ ps.f.FileEnd = registered.base + registered.size
             /\ FailsByPackageClause =>
                    (ps.f.PkgName = placeholderFile.PkgName /\ ps.f.Decls = <<>>)
        ELSE /\ ps.f = Nil
             /\ ps.err # Nil
             /\ fset \in ParseRegistries

\* A call returned the placeholder File for a text whose package name is
\* reserved, registered after another file.
C10_Witness ==
    /\ ps.pc = "returned"
    /\ ps.read
    /\ ps.text = Chars("package init;")
    /\ Len(fset.files) = 2
    /\ FailsByPackageClause
    /\ ps.f.PkgName = placeholderFile.PkgName
    /\ ps.f.FileEnd = registered.base + Len(ps.text)

\* A call read its source and returns the File that parseFile made.
parsed ==
    /\ ps.pc = "returned"
    /\ ps.read
    /\ ps.f.PkgName # placeholderFile.PkgName

\* The comments of a list of comment groups, in the order of the list.
RECURSIVE groupComments(_)
groupComments(groups) ==
    IF groups = <<>> THEN <<>>
    ELSE groups[1].List \o groupComments(Tail(groups))

\* The comments of the source: the Comment tokens of the scanner, in the
\* order it produced them.
scannedComments ==
    LET cs == SelectSeq(lexRun, LAMBDA r : r.tok = "Comment")
    IN  [i \in 1..Len(cs) |->
            [kind |-> "Comment", Slash |-> cs[i].pos, Text |-> cs[i].lit]]

\* C11: the File that parseFile made holds in Comments every comment group
\* of the source, in source order: the comments of its groups are exactly
\* the Comment tokens the scanner produced, one after the other.
C11_CommentsKept ==
    parsed => groupComments(ps.f.Comments) = scannedComments

importsFirst == Chars("imports must appear before other declarations")

\* The number of errors of the call with the message importsFirst.
complaints ==
    IF ps.err = Nil THEN 0
    ELSE Cardinality({i \in 1..Len(ps.err.list) : ps.err.list[i].Msg = importsFirst})

\* The import declarations of decls that follow a declaration that is no
\* import, and those of them that follow one directly.
lateImports(decls) ==
    {i \in 1..Len(decls) :
        /\ decls[i].kind = "ImportDecl"
        /\ \E j \in 1..(i - 1) : decls[j].kind # "ImportDecl"}

runHeads(decls) ==
    {i \in lateImports(decls) : decls[i - 1].kind # "ImportDecl"}

importDecls(decls) == SelectSeq(decls, LAMBDA d : d.kind = "ImportDecl")

\* C12 as stated: every import declaration after a declaration that is no
\* import records the error importsFirst, and every import declaration is
\* in Decls and in Imports.
C12_EveryLateImport ==
    parsed =>
        /\ complaints = Cardinality(lateImports(ps.f.Decls))
        /\ ps.f.Imports = importDecls(ps.f.Decls)

\* C12: an import declaration records the error importsFirst when the
\* declaration before it is no import, so that consecutive late imports
\* record it once; every import declaration is in Decls and in Imports, and
\* the text with one import before and one after a variable gives one error,
\* two ImportDecl nodes and one VarDecl.
C12_LateImportRuns ==
    parsed =>
        /\ complaints = Cardinality(runHeads(ps.f.Decls))
        /\ ps.f.Imports = importDecls(ps.f.Decls)
        /\ ps.text = Chars("package p;import \"bar\"; var _ a = a; import \"baz\"") =>
               /\ Len(ps.err.list) = 1
               /\ [i \in 1..Len(ps.f.Decls) |-> ps.f.Decls[i].kind]
                      = <<"ImportDecl", "VarDecl", "ImportDecl">>

\* A call returned for a text with two late imports in a row: one error,
\* both imports in Decls and in Imports.
C12_Witness ==
    /\ parsed
    /\ ps.text = Chars("package p;var a = b;import \"x\";import \"y\"")
    /\ complaints = 1
    /\ Cardinality(lateImports(ps.f.Decls)) = 2
    /\ Len(ps.f.Imports) = 2
    /\ Len(ps.f.Decls) = 3

-----------------------------------------------------------------------------
(* Properties of the registry and of its files, continued.                 *)

\* C13: AddFile panics when the base given is not negative and smaller than
\* the registry's next base, and when the size is negative; a call that
\* panics leaves the registry as it was (next base, files and cache); a call
\* with a negative base never panics for its base.
C13_AddFileFails ==
    [][fsOp'.op = "AddFile" =>
          /\ (fsOp'.base >= 0 /\ fsOp'.base < fset.base) => fsOp'.panic # ""
          /\ fsOp'.size < 0 => fsOp'.panic # ""
          /\ fsOp'.panic # "" => (fsOp'.f = NilFile /\ fset' = fset)
          /\ fsOp'.base < 0 => fsOp'.panic # "invalid base"]_vars

\* AddFile panicked for a base within the interval of the second file of
\* the registry, which it left with its two files and its next base.
C13_Witness ==
    /\ fsOp.op = "AddFile"
    /\ fsOp.panic = "invalid base"
    /\ Len(fset.files) = 2
    /\ fsOp.base >= fset.files[2].base
    /\ fsOp.size >= 0
    /\ fset.base = fsOp.nextBase
    /\ fset.last = 2

-----------------------------------------------------------------------------
(* The registry at the end of the range of positions.  AddFile computes    *)
(* with Go ints, which have 32 or 64 bits by the build.  The numbers of    *)
(* this machine lie near 2^31 and are written by their distance from it:   *)
(* n is written n - 2^31, so that -1 stands for 2^31 - 1, the largest      *)
(* 32-bit int, and 0 for 2^31.  Sizes are written as they are.  The        *)
(* registry is held in fsOp: [intSize, base, files, call], where a file is *)
(* [base, size] and call is the last call of AddFile, with s.base before   *)
(* it as nextBase.                                                         *)

IntSizes == {32, 64}
TopGap == 3
TopSize == 2
TopFiles == 3

\* `base < 0` for the sum base + size + 1 written d: an int of 32 bits that
\* reached 2^31 has wrapped to a negative number, one of 64 bits has not.
wrapped(intSize, d) == intSize = 32 /\ d >= 0

\* s.AddFile(name, base, size) for a registry s with s.base near 2^31;
\* given tells whether the base is given (not negative): [s, panic].
addFileAtTop(s, given, base0, size) ==
    LET base == IF given THEN base0 ELSE s.base
    IN  IF base < s.base THEN [s |-> s, panic |-> "invalid base"]
        ELSE IF size < 0 THEN [s |-> s, panic |-> "invalid size"]
        ELSE IF wrapped(s.intSize, base + size + 1)
             THEN [s |-> s, panic |-> "offset overflow"]
        ELSE [s |-> [s EXCEPT !.base = base + size + 1,
                              !.files = Append(@, [base |-> base, size |-> size])],
              panic |-> ""]

\* A registry after s.AddFile("f", 2^31 - g - 1, 0), for a gap g.
TopInit ==
    /\ \E w \in IntSizes, g \in 1..TopGap :
         fsOp = [op |-> "AddFile", intSize |-> w, base |-> -g,
                 files |-> <<[base |-> -g - 1, size |-> 0]>>,
                 call |-> [given |-> TRUE, base |-> -g - 1, size |-> 0,
                           nextBase |-> -g - 1, panic |-> ""]]
    /\ fset = NewFileSet
    /\ LexIdle
    /\ ParseIdle

\* s.AddFile(name, base, size) with a negative base or one around s.base
\* that the int can hold.
TopAddFile ==
    /\ Len(fsOp.files) < TopFiles
    /\ \E given \in BOOLEAN, base \in (fsOp.base - 1)..(fsOp.base + 1),
          size \in -1..TopSize :
         /\ given /\ fsOp.intSize = 32 => base < 0
         /\ ~given => base = fsOp.base
         /\ \E r \in {addFileAtTop(fsOp, given, base, size)} :
              fsOp' = [r.s EXCEPT !.call = [given |-> given, base |-> base,
                                            size |-> size, nextBase |-> fsOp.base,
                                            panic |-> r.panic]]
    /\ UNCHANGED <<fset, lexVars, parseVars>>

TopSpec == TopInit /\ [][TopAddFile]_vars

\* C14: every position a registry hands out is below 2^31: the interval
\* [base, base+size] of every file ends below 2^31, and a call of AddFile
\* the interval of which would not, panics.
C14_PositionsBelowTop ==
    /\ \A i \in 1..Len(fsOp.files) : fsOp.files[i].base + fsOp.files[i].size < 0
    /\ LET base == IF fsOp.call.given THEN fsOp.call.base ELSE fsOp.call.nextBase
       IN  (fsOp.call.size >= 0 /\ base + fsOp.call.size >= 0)
               => fsOp.call.panic # ""

-----------------------------------------------------------------------------
(* The methods of one File: a registry holds a file, lines are added to    *)
(* it, and offsets, positions and lines are converted.  fsOp holds the     *)
(* last call and what it returned.                                         *)

MaxFileSize == 4

theFile == fset.files[1]

FileInit ==
    /\ \E base \in LexBases, size \in 0..MaxFileSize :
         /\ fset = AddFileResult(NewFileSet, "f", base, size).s
         /\ fsOp = [op |-> "AddFile", base |-> base, size |-> size]
    /\ LexIdle
    /\ ParseIdle

\* f.AddLine(offset), for every offset from -1 to one past the size.
FileAddLine ==
    /\ \E offset \in -1..(theFile.size + 1) :
         /\ fset' = [fset EXCEPT !.files[1] = AddLine(@, offset)]
         /\ fsOp' = [op |-> "AddLine", offset |-> offset,
                     before |-> theFile.lines]
    /\ UNCHANGED <<lexVars, parseVars>>

\* f.Pos(offset) and f.Offset of the result, for every offset from -2 to
\* two past the size.
FilePosOffset ==
    /\ \E offset \in -2..(theFile.size + 2) :
       \E q \in {FilePos(theFile, offset)} :
         fsOp' = [op |-> "Pos", offset |-> offset, pos |-> q,
                  back |-> FileOffset(theFile, q)]
    /\ UNCHANGED <<fset, lexVars, parseVars>>

\* f.Offset(p), for every p from two below the base to two past the end.
FileOffsetOf ==
    /\ \E q \in (theFile.base - 2)..(theFile.base + theFile.size + 2) :
         fsOp' = [op |-> "Offset", p |-> q, offset |-> FileOffset(theFile, q)]
    /\ UNCHANGED <<fset, lexVars, parseVars>>

\* f.LineStart(line), and f.Line and f.Position of the result, for every
\* line from -1 to one past the line count.
FileLineStart ==
    /\ \E line \in -1..(LineCount(theFile) + 1) :
       \E r \in {LineStart(theFile, line)} :
         fsOp' = [op |-> "LineStart", line |-> line, count |-> LineCount(theFile),
                  pos |-> r.pos, panic |-> r.panic,
                  lineOf |-> IF r.panic = "" THEN FileLine(theFile, r.pos) ELSE 0,
                  position |-> IF r.panic = "" THEN FilePosition(theFile, r.pos)
                               ELSE NoPosition]
    /\ UNCHANGED <<fset, lexVars, parseVars>>

FileNext == FileAddLine \/ FilePosOffset \/ FileOffsetOf \/ FileLineStart

FileSpec == FileInit /\ [][FileNext]_vars

\* C15: for an offset from 0 to the size, Offset(Pos(offset)) is the offset;
\* an offset below 0 is taken as 0 and one above the size as the size, so
\* that Pos(offset) lies from base to base+size, and Offset(p) lies from 0
\* to the size.
C15_PosOffset ==
    /\ fsOp.op = "Pos" =>
         /\ fsOp.pos \in theFile.base..(theFile.base + theFile.size)
         /\ fsOp.offset \in 0..theFile.size =>
                (fsOp.back = fsOp.offset /\ fsOp.pos = theFile.base + fsOp.offset)
         /\ fsOp.offset < 0 => (fsOp.pos = theFile.base /\ fsOp.back = 0)
         /\ fsOp.offset > theFile.size =>
                (fsOp.pos = theFile.base + theFile.size /\ fsOp.back = theFile.size)
    /\ fsOp.op = "Offset" =>
         /\ fsOp.offset \in 0..theFile.size
         /\ fsOp.p \in theFile.base..(theFile.base + theFile.size) =>
                fsOp.offset = fsOp.p - theFile.base

\* The last offset of a file of base 3 went to its last position and back.
C15_Witness ==
    /\ fsOp.op = "Pos"
    /\ theFile.base = 3
    /\ theFile.size = MaxFileSize
    /\ fsOp.offset = theFile.size
    /\ fsOp.pos = 3 + MaxFileSize
    /\ fsOp.back = fsOp.offset

\* C16: after any calls of AddLine, for every line from 1 to the line
\* count, the line of LineStart(line) is the line and the column of its
\* position is 1; LineStart panics for a line below 1 or above the count.
C16_LineStart ==
    fsOp.op = "LineStart" =>
        /\ fsOp.count = Len(theFile.lines)
        /\ (fsOp.panic # "") <=> (fsOp.line < 1 \/ fsOp.line > fsOp.count)
        /\ fsOp.panic = "" =>
               /\ fsOp.lineOf = fsOp.line
               /\ fsOp.position.Line = fsOp.line
               /\ fsOp.position.Column = 1

\* LineStart gave the start of the third of three lines of a file.
C16_Witness ==
    /\ fsOp.op = "LineStart"
    /\ fsOp.count = 3
    /\ fsOp.line = 3
    /\ fsOp.panic = ""
    /\ fsOp.pos = theFile.base + theFile.lines[3]
    /\ fsOp.position.Line = 3
    /\ fsOp.position.Column = 1

-----------------------------------------------------------------------------
(* The token catalog as a machine: after init() built the map keywords,    *)
(* tokens are classified and names are looked up.  fsOp holds the last     *)
(* call and what it returned.                                              *)

\* The names looked up: the texts of the tokens of the keyword band, the
\* strings of TestIsIdentifier and more names with digits and underscores.
CatalogNames ==
    {tokens[t] : t \in KeywordBand}
    \cup {Chars(""), Chars(" "), Chars("foo "), Chars("123"), Chars("foo"),
          Chars("_bar123"), Chars("Func"), <<"f", "xC3", "xB3", "xC3", "xB6">>,
          <<"xF0", "x9F", "xA4", "x94">>, Chars("_"), Chars("a1"), Chars("1a"),
          Chars("a-b"), Chars("VOID"), Chars("anyone")}

CatalogInit ==
    /\ fsOp = [op |-> "init"]
    /\ fset = NewFileSet
    /\ LexIdle
    /\ ParseIdle

\* tok.IsLiteral(), tok.IsOperator(), tok.IsKeyword(), for every value from
\* 0 to tokenMax.
Classify ==
    /\ \E v \in 0..tokenValue["tokenMax"] :
       \E t \in {TokenNames[v + 1]} :
         fsOp' = [op |-> "Classify", value |-> v, tok |-> t,
                  literal |-> IsLiteral(t), operator |-> IsOperator(t),
                  keyword |-> IsKeywordToken(t)]
    /\ UNCHANGED <<fset, lexVars, parseVars>>

\* IsIdentifier(name), IsKeyword(name) and Lookup(name).
LookupName ==
    /\ \E name \in CatalogNames :
         fsOp' = [op |-> "Lookup", name |-> name,
                  identifier |-> IsIdentifier(name),
                  keyword |-> IsKeyword(name), tok |-> Lookup(name)]
    /\ UNCHANGED <<fset, lexVars, parseVars>>

CatalogNext == Classify \/ LookupName

CatalogSpec == CatalogInit /\ [][CatalogNext]_vars

\* The bands of the enumeration, token by token.
SpecialTokens == {"Illegal", "EOF", "Comment"}

Markers ==
    {"literalA", "literalZ", "operatorA", "operatorZ", "keywordA", "keywordZ",
     "tokenMax"}

LiteralTokens == {"Ident", "Int", "Float", "Char", "String"}

KeywordTokens ==
    {"Any", "Bool", "Break", "Case", "Const", "Continue", "Defer", "Else",
     "Fallthrough", "False", "For", "Func", "Goto", "If", "Import", "Nil",
     "Package", "Return", "Struct", "Switch", "True", "Typedef", "Var", "Void"}

OperatorTokens ==
    Range(TokenNames)
        \ (SpecialTokens \cup Markers \cup LiteralTokens \cup KeywordTokens)

C18_IdentifierLookup ==
    (fsOp.op = "Lookup" /\ fsOp.identifier) => fsOp.tok = "Ident"

\* A name with an underscore and digits is an identifier and is looked up
\* as Ident.
C18_Witness ==
    /\ fsOp.op = "Lookup"
    /\ fsOp.name = Chars("_bar123")
    /\ fsOp.identifier
    /\ fsOp.tok = "Ident"

-----------------------------------------------------------------------------
(* An ErrorList as a machine: errors are added, the list is rendered and   *)
(* multiples are removed.  fsOp holds the list, the last call and what it  *)
(* returned.                                                               *)

MaxErrors == 3
MaxListLen == 12

\* The positions of the errors added: without and with file name, on no
\* line (the zero line) and on lines 1 and 2; the offset follows from line
\* and column.
ErrorPositions ==
    {[Filename |-> n, Offset |-> 0, Line |-> 0, Column |-> 0] : n \in {"", "a"}}
    \cup {pos \in {[Filename |-> n, Offset |-> 2 * (l - 1) + (c - 1),
                     Line |-> l, Column |-> c] :
                        n \in {"", "a"}, l \in 1..2, c \in 1..2} :
            pos.Column <= 3 - pos.Line}

\* The errors added: one message at every position, and a second message
\* at one of them.
ErrorEntries ==
    {[Pos |-> pos, Msg |-> Chars("x")] : pos \in ErrorPositions}
    \cup {[Pos |-> [Filename |-> "a", Offset |-> 0, Line |-> 1, Column |-> 1],
            Msg |-> Chars("y z")]}

\* More errors, added to lists of equal errors only: on a line without a
\* column, with and without file name, and on a line and column of two
\* digits.
LoneEntries ==
    {[Pos |-> [Filename |-> n, Offset |-> 3, Line |-> 2, Column |-> 0],
      Msg |-> Chars("x")] : n \in {"", "a"}}
    \cup {[Pos |-> [Filename |-> "a", Offset |-> 99, Line |-> 12, Column |-> 10],
            Msg |-> Chars("y z")]}

ErrorsInit ==
    /\ fsOp = [op |-> "new", list |-> <<>>]
    /\ fset = NewFileSet
    /\ LexIdle
    /\ ParseIdle

\* p.Add(pos, msg): any error while the list is short, and then one more
\* of the same error to a list of equal errors.
ErrorAdd ==
    /\ Len(fsOp.list) < MaxListLen
    /\ \E e \in ErrorEntries \cup LoneEntries :
         /\ Len(fsOp.list) >= MaxErrors => Range(fsOp.list) = {e}
         /\ e \in LoneEntries => Range(fsOp.list) \subseteq {e}
         /\ fsOp' = [op |-> "Add", list |-> ErrorListAdd(fsOp.list, e.Pos, e.Msg)]
    /\ UNCHANGED <<fset, lexVars, parseVars>>

\* p.removeMultiples()
RemoveMultiples ==
    /\ fsOp' = [op |-> "removeMultiples", before |-> fsOp.list,
                list |-> removeMultiples(fsOp.list)]
    /\ UNCHANGED <<fset, lexVars, parseVars>>

\* p.Error() and p.Err(), with p[0].Error() when the list has an entry.
ErrorListRender ==
    /\ fsOp' = [op |-> "Error", list |-> fsOp.list,
                text |-> ErrorListError(fsOp.list),
                first |-> IF fsOp.list = <<>> THEN <<>> ELSE ErrorError(fsOp.list[1]),
                err |-> ErrorListErr(fsOp.list)]
    /\ UNCHANGED <<fset, lexVars, parseVars>>

ErrorsNext == ErrorAdd \/ RemoveMultiples \/ ErrorListRender

ErrorsSpec == ErrorsInit /\ [][ErrorsNext]_vars

\* The file name and line of an error, and those of the errors of a list.
linePair(e) == <<e.Pos.Filename, e.Pos.Line>>

linePairs(list) == {linePair(list[i]) : i \in 1..Len(list)}

\* The list is sorted by file name, line, column and message.
sortedErrors(list) ==
    \A i, j \in 1..Len(list) : i < j => CompareError(list[i], list[j]) <= 0

\* The list holds one entry for each of the pairs, and no other entry.
onePerPair(list, pairs) ==
    /\ linePairs(list) = pairs
    /\ \A i, j \in 1..Len(list) : linePair(list[i]) = linePair(list[j]) => i = j

\* e is the first entry of its file name and line in the sorted list.
firstOfLine(list, e) ==
    /\ e \in Range(list)
    /\ \A b \in Range(list) : linePair(b) = linePair(e) => CompareError(e, b) <= 0

\* C19 as stated: removeMultiples leaves the list sorted, with one entry
\* for every pair of file name and line that occurred in the list before,
\* the first one of that pair in sorted order.
C19_OnePerLine ==
    fsOp.op = "removeMultiples" =>
        /\ sortedErrors(fsOp.list)
        /\ onePerPair(fsOp.list, linePairs(fsOp.before))
        /\ \A i \in 1..Len(fsOp.list) : firstOfLine(fsOp.before, fsOp.list[i])

\* C19: removeMultiples leaves the list sorted, with one entry for every
\* pair of file name and line that occurred in the list before, the first
\* one of that pair in sorted order, except for the pair of the empty file
\* name and line 0, the entries of which are all removed.
C19_OnePerLegalLine ==
    fsOp.op = "removeMultiples" =>
        /\ sortedErrors(fsOp.list)
        /\ onePerPair(fsOp.list, linePairs(fsOp.before) \ {<<"", 0>>})
        /\ \A i \in 1..Len(fsOp.list) : firstOfLine(fsOp.before, fsOp.list[i])

\* removeMultiples took one of two errors of a line out of an unsorted list
\* of three, and took out the errors without file name and line.
C19_Witness ==
    /\ fsOp.op = "removeMultiples"
    /\ Len(fsOp.before) = 3
    /\ fsOp.before # SortErrors(fsOp.before)
    /\ <<"", 0>> \in linePairs(fsOp.before)
    /\ Cardinality(linePairs(fsOp.before)) = 2
    /\ Len(fsOp.list) = 1
    /\ fsOp.list[1].Pos.Column = 1
    /\ fsOp.list[1].Msg = Chars("x")

\* The number a sequence of decimal digits stands for.
RECURSIVE decimalValue(_)
decimalValue(digits) ==
    IF digits = <<>> THEN 0
    ELSE 10 * decimalValue(SubSeq(digits, 1, Len(digits) - 1))
         + (IndexOf(Decimals, Last(digits)) - 1)

\* str is head, the decimal number n and tail, one after the other.
numbered(str, head, n, tail) ==
    LET digits == SubSeq(str, Len(head) + 1, Len(str) - Len(tail))
    IN  /\ Len(str) > Len(head) + Len(tail)
        /\ SubSeq(str, 1, Len(head)) = head
        /\ SubSeq(str, Len(str) - Len(tail) + 1, Len(str)) = tail
        /\ \A k \in 1..Len(digits) : digits[k] \in Range(Decimals)
        /\ Len(digits) > 1 => digits[1] # "0"
        /\ decimalValue(digits) = n

\* C20: the text of a list of n errors is "no errors" for n = 0, the text
\* of the first error for n = 1, and for n >= 2 the text of the first error
\* and then " (and n-1 more errors)"; Err gives no error for the empty list
\* and for it only.
C20_Rendering ==
    fsOp.op = "Error" =>
        LET n == Len(fsOp.list)
        IN  /\ n = 0 => fsOp.text = Chars("no errors")
            /\ n = 1 => fsOp.text = fsOp.first
            /\ n >= 2 =>
                   /\ SubSeq(fsOp.text, 1, Len(fsOp.first)) = fsOp.first
                   /\ numbered(SubSeq(fsOp.text, Len(fsOp.first) + 1, Len(fsOp.text)),
                               Chars(" (and "), n - 1, Chars(" more errors)"))
            /\ (fsOp.err = NilError) <=> (n = 0)

\* A list of eleven errors was rendered.
C20_Witness ==
    /\ fsOp.op = "Error"
    /\ Len(fsOp.list) = 11
    /\ fsOp.first = Chars("a:1:2: x")
    /\ fsOp.text = Chars("a:1:2: x (and 10 more errors)")
    /\ fsOp.err # NilError

\* The decimal digits of a number below 100, found by reading them back.
decimalText(n) ==
    CHOOSE d \in {<<a>> : a \in Range(Decimals)}
                 \cup {<<a, b>> : a \in Range(Decimals) \ {"0"}, b \in Range(Decimals)} :
        decimalValue(d) = n

\* The first error of the list rendered.
rendered == fsOp.list[1]

\* C21 as stated: an error renders as "filename:line:col: message" when its
\* position is valid and has a file name, as "line:col: message" when it is
\* valid without a file name, and as the message alone when it is invalid.
C21_BareWhenInvalid ==
    (fsOp.op = "Error" /\ fsOp.list # <<>>) =>
        LET pos == rendered.Pos
            lineCol == decimalText(pos.Line) \o <<":">> \o decimalText(pos.Column)
        IN  fsOp.first =
                IF pos.Line = 0 THEN rendered.Msg
                ELSE IF pos.Filename # ""
                THEN Chars(pos.Filename) \o <<":">> \o lineCol \o Chars(": ")
                     \o rendered.Msg
                ELSE lineCol \o Chars(": ") \o rendered.Msg

\* C21: an error renders as "filename:line:col: message" when its position
\* is valid and has a file name, and as "line:col: message" when it is valid
\* without a file name, in both without ":col" when the column is 0; as
\* "filename: message" when its position is invalid and has a file name, and
\* as the message alone when it is invalid without a file name.
C21_ErrorText ==
    (fsOp.op = "Error" /\ fsOp.list # <<>>) =>
        LET pos == rendered.Pos
            lineCol == decimalText(pos.Line)
                       \o (IF pos.Column = 0 THEN <<>>
                           ELSE <<":">> \o decimalText(pos.Column))
        IN  fsOp.first =
                IF pos.Line = 0
                THEN IF pos.Filename # ""
                     THEN Chars(pos.Filename) \o Chars(": ") \o rendered.Msg
                     ELSE rendered.Msg
                ELSE IF pos.Filename # ""
                THEN Chars(pos.Filename) \o <<":">> \o lineCol \o Chars(": ")
                     \o rendered.Msg
                ELSE lineCol \o Chars(": ") \o rendered.Msg

\* An error with a file name and no line was rendered.
C21_Witness ==
    /\ fsOp.op = "Error"
    /\ Len(fsOp.list) = 1
    /\ rendered.Pos.Filename = "a"
    /\ rendered.Pos.Line = 0
    /\ fsOp.first = Chars("a: x")
    /\ fsOp.text = fsOp.first

\* The line table begins with 0 and is strictly increasing.
tableAscends ==
    /\ theFile.lines[1] = 0
    /\ \A i, j \in 1..Len(theFile.lines) : i < j => theFile.lines[i] < theFile.lines[j]

\* AddLine appended its offset exactly when it lies above the last entry
\* and below the size.
appendsInRange ==
    fsOp.op = "AddLine" =>
        theFile.lines =
            IF fsOp.offset > Last(fsOp.before) /\ fsOp.offset < theFile.size
            THEN Append(fsOp.before, fsOp.offset)
            ELSE fsOp.before

\* C22 as stated: after AddFile and any calls of AddLine, the line table
\* begins with 0, is strictly increasing and every entry is below the size;
\* AddLine appends the offset exactly when it lies above the last entry and
\* below the size, and leaves the table as it is otherwise.
C22_EntriesBelowSize ==
    /\ tableAscends
    /\ \A i \in 1..Len(theFile.lines) : theFile.lines[i] < theFile.size
    /\ appendsInRange

\* C22: after AddFile and any calls of AddLine, the line table begins with
\* 0, is strictly increasing and every entry after the first is below the
\* size; AddLine appends the offset exactly when it lies above the last
\* entry and below the size, and leaves the table as it is otherwise.
C22_LineTable ==
    /\ tableAscends
    /\ \A i \in 2..Len(theFile.lines) : theFile.lines[i] < theFile.size
    /\ appendsInRange

\* AddLine appended the last offset below the size as the third line.
C22_Witness ==
    /\ fsOp.op = "AddLine"
    /\ Len(fsOp.before) = 2
    /\ fsOp.offset = theFile.size - 1
    /\ theFile.lines = Append(fsOp.before, fsOp.offset)

(***************************************************************************)
(* The resynchronisation of the parser.  A parser is set up on a text and  *)
(* then driven by calls of next and of advance with the three sets of      *)
(* tokens the parser synchronises on.  ps.stalled counts the calls of      *)
(* advance in a row that returned at the position of the last              *)
(* synchronisation without consuming a token.                              *)
(***************************************************************************)

MaxStalls == 10

AdvanceTexts ==
    {Chars("x;var a,b)\nfunc f"),
     Chars("if a }:] const"),
     Chars(") // c\n;")}

SyncSets == {declStart, stmtStart, exprEnd}

AdvanceInit ==
    /\ \E t \in AdvanceTexts :
       \E r \in {AddFileResult(NewFileSet, "f", -1, Len(t))} :
         /\ fset = r.s
         /\ lexRun = ScanRun(t, r.s.files[r.f])
         /\ ps = [pc |-> "init", fi |-> r.f]
    /\ fsOp = [op |-> "none"]
    /\ LexIdle

\* What a call of the parser is recorded with: the parser before it.
before(P) ==
    [pos |-> P.pos, tok |-> P.tok, lit |-> P.lit, syncPos |-> P.syncPos,
     syncCount |-> P.syncCount, scanIx |-> P.scanIx,
     errors |-> Len(P.errors), lexErrors |-> Len(P.scanner.errs)]

\* p.init(file, text)
AdvanceBegin ==
    /\ ps.pc = "init"
    /\ \E P1 \in {next(newParser(lexRun[1].x))} :
         parserStep([pc |-> "ready", fi |-> ps.fi, p |-> P1, stalled |-> 0,
                     call |-> [op |-> "init", before |-> before(P1)]])

\* p.next()
AdvanceNext ==
    /\ ps.pc = "ready"
    /\ ps.p.tok # "EOF"
    /\ \E P1 \in {next(ps.p)} :
         parserStep([ps EXCEPT !.p = P1, !.stalled = 0,
                               !.call = [op |-> "next", before |-> before(ps.p)]])

\* p.advance(to)
AdvanceCall ==
    /\ ps.pc = "ready"
    /\ ps.stalled <= MaxStalls
    /\ \E to \in SyncSets :
       \E P1 \in {advance(ps.p, to)} :
         parserStep([ps EXCEPT
             !.p = P1,
             !.stalled = IF /\ ps.p.tok # "EOF"
                            /\ ps.p.pos = ps.p.syncPos
                            /\ P1.scanIx = ps.p.scanIx
                         THEN @ + 1 ELSE 0,
             !.call = [op |-> "advance", to |-> to, stalled |-> ps.stalled,
                       before |-> before(ps.p)]])

AdvanceMachineNext == AdvanceBegin \/ AdvanceNext \/ AdvanceCall

AdvanceSpec == AdvanceInit /\ [][AdvanceMachineNext]_vars

\* C23: advance returns only with a token of its set or EOF current; once
\* 10 calls of advance in a row have returned without progress at the same
\* position of synchronisation, the next call at that position consumes at
\* least one token; the recorded position of synchronisation never
\* decreases.
C23_Advance ==
    ps.pc = "ready" =>
        /\ ps.p.syncPos >= ps.call.before.syncPos
        /\ ps.call.op = "advance" =>
             /\ ps.p.tok \in ps.call.to \cup {"EOF"}
             /\ ps.call.stalled >= 10 => ps.p.scanIx > ps.call.before.scanIx

\* The eleventh call of advance in a row at one position went on to a
\* later token of its set.
C23_Witness ==
    /\ ps.pc = "ready"
    /\ ps.call.op = "advance"
    /\ ps.call.stalled = 10
    /\ ps.p.scanIx > ps.call.before.scanIx
    /\ ps.p.tok \in ps.call.to
    /\ ps.p.syncPos > ps.call.before.syncPos

(***************************************************************************)
(* The expectations of the parser.  A parser is set up on a text and then  *)
(* driven by calls of next, of expectSemi, of expect and of                *)
(* tryIdentOrType.                                                         *)
(***************************************************************************)

ExpectTexts ==
    {Chars("package 123;"),
     Chars("a)\n}b,c;d if"),
     Chars("x y @ var 1.5"),
     Chars("a /* c */ ; // d\nb"),
     Chars("var a bool = empty;")}

ExpectTokens == {"Ident", "Semicolon", "RightParen", "Package", "Assign"}

\* The calls go on while the parser holds fewer errors than this.
MaxExpectErrors == 2

ExpectInit ==
    /\ \E t \in ExpectTexts :
       \E r \in {AddFileResult(NewFileSet, "f", -1, Len(t))} :
         /\ fset = r.s
         /\ lexRun = ScanRun(t, r.s.files[r.f])
         /\ ps = [pc |-> "init", fi |-> r.f]
    /\ fsOp = [op |-> "none"]
    /\ LexIdle

\* p.expectSemi()
ExpectSemiCall ==
    /\ ps.pc = "ready"
    /\ Len(ps.p.errors) < MaxExpectErrors
    /\ \E r \in {expectSemi(ps.p)} :
         parserStep([ps EXCEPT !.p = r.p, !.stalled = 0,
                               !.call = [op |-> "expectSemi",
                                         before |-> before(ps.p)]])

\* p.expect(tok)
ExpectCall ==
    /\ ps.pc = "ready"
    /\ Len(ps.p.errors) < MaxExpectErrors
    /\ \E tok \in ExpectTokens :
       \E r \in {expect(ps.p, tok)} :
         parserStep([ps EXCEPT !.p = r.p, !.stalled = 0,
                               !.call = [op |-> "expect", tok |-> tok,
                                         pos |-> r.pos,
                                         before |-> before(ps.p)]])

\* p.tryIdentOrType()
TryIdentOrTypeCall ==
    /\ ps.pc = "ready"
    /\ \E r \in {tryIdentOrType(ps.p)} :
         parserStep([ps EXCEPT !.p = r.p, !.stalled = 0,
                               !.call = [op |-> "tryIdentOrType", node |-> r.node,
                                         before |-> before(ps.p)]])

ExpectNext ==
    \/ AdvanceBegin
    \/ AdvanceNext
    \/ ExpectSemiCall
    \/ ExpectCall
    \/ TryIdentOrTypeCall

ExpectSpec == ExpectInit /\ [][ExpectNext]_vars

\* The index in lexRun of the token that follows the one at i: the next
\* result that is no comment, and the last result after that one.
following(i) ==
    IF i >= Len(lexRun) - 1 THEN i
    ELSE CHOOSE j \in (i + 1)..(Len(lexRun) - 1) :
           /\ lexRun[j + 1].tok # "Comment"
           /\ \A k \in (i + 1)..(j - 1) : lexRun[k + 1].tok = "Comment"

\* The number of errors the last call recorded that are not the lexer's.
ownErrors ==
    (Len(ps.p.errors) - ps.call.before.errors)
    - (Len(ps.p.scanner.errs) - ps.call.before.lexErrors)

\* The first error the last call recorded.
firstError == ps.p.errors[ps.call.before.errors + 1]

\* The last call recorded one error of its own, at the token it began
\* with, whose message begins with msg.
oneErrorHere(msg) ==
    /\ ownErrors = 1
    /\ firstError.Pos.Offset = ps.call.before.pos - parserFile(ps.p).base
    /\ Len(firstError.Msg) >= Len(msg)
    /\ SubSeq(firstError.Msg, 1, Len(msg)) = msg

\* The last call consumed the token it began with and no other.
consumedOne == ps.p.scanIx = following(ps.call.before.scanIx)

\* C24: expectSemi at ')' or '}' consumes nothing and records no error; at
\* a semicolon, explicit or artificial, it consumes that token and records
\* no error; at ',' it records one error "expected ';'" and consumes the
\* comma; at any other token it records one error and skips forward to a
\* token that starts a statement or to EOF.
C24_ExpectSemi ==
    (ps.pc = "ready" /\ ps.call.op = "expectSemi") =>
        CASE ps.call.before.tok \in {"RightParen", "RightBrace"} ->
               /\ ps.p.scanIx = ps.call.before.scanIx
               /\ Len(ps.p.errors) = ps.call.before.errors
          [] ps.call.before.tok = "Semicolon" ->
               /\ consumedOne
               /\ ownErrors = 0
          [] ps.call.before.tok = "Comma" ->
               /\ oneErrorHere(Chars("expected ';'"))
               /\ consumedOne
          [] OTHER ->
               /\ oneErrorHere(Chars("expected ';'"))
               /\ ps.p.tok \in stmtStart \cup {"EOF"}
               /\ ps.p.scanIx >= ps.call.before.scanIx

\* expectSemi at a comma recorded its error and went on to the token after
\* the comma.
C24_Witness ==
    /\ ps.pc = "ready"
    /\ ps.call.op = "expectSemi"
    /\ ps.call.before.tok = "Comma"
    /\ firstError.Msg = Chars("expected ';', found ','")
    /\ ps.p.tok = "Ident"
    /\ ps.p.lit = <<"c">>

\* The text expect names the token it found with.
foundText ==
    IF ps.call.before.tok \in LiteralTokens THEN ps.call.before.lit
    ELSE IF ps.call.before.tok = "Semicolon" /\ ps.call.before.lit = <<"\n">>
    THEN Chars("newline")
    ELSE Chars("'") \o TokenString(ps.call.before.tok) \o Chars("'")

\* The name of a token as the tests of the parser write it in the messages
\* they expect.
nameInTests(tok) == IF tok = "Ident" THEN Chars("Ident") ELSE TokenString(tok)

\* C25: when expect(tok) finds another token, it records exactly one error
\* at the current position that reads "expected '<tok>', found X", with
\* 'Ident' for an identifier as in "expected 'Ident', found 123", and still
\* consumes one token; X is the text of the token if it is a literal,
\* "newline" if it is an artificial semicolon, and the quoted text of the
\* token otherwise.
C25_Expect ==
    (ps.pc = "ready" /\ ps.call.op = "expect" /\ ps.call.before.tok # ps.call.tok) =>
        /\ oneErrorHere(Chars("expected '") \o nameInTests(ps.call.tok)
                        \o Chars("', found ") \o foundText)
        /\ Len(firstError.Msg)
             = Len(Chars("expected '") \o nameInTests(ps.call.tok)
                   \o Chars("', found ") \o foundText)
        /\ consumedOne

\* The errors the last call of Scan reported.
scanErrors == SubSeq(lx.errs, out.errs + 1, Len(lx.errs))

\* The literal begins with one of the prefixes 0b, 0B, 0o, 0O, 0x, 0X.
hasBasePrefix(lit) ==
    /\ Len(lit) >= 2
    /\ lit[1] = "0"
    /\ lit[2] \in {"b", "B", "o", "O", "x", "X"}

\* The name of the literal that the prefix announces.
prefixName(lit) ==
    IF lit[2] \in {"b", "B"} THEN "binary literal"
    ELSE IF lit[2] \in {"o", "O"} THEN "octal literal"
    ELSE "hexadecimal literal"

\* The body of a literal with a prefix, up to the fraction, holds no digit.
noBodyDigit(lit) ==
    \A i \in 3..Len(lit) :
        (\A j \in 3..(i - 1) : lit[j] # ".") => ~isHex(lit[i])

\* The errors "<name> has no digits" of the last call of Scan.
noDigitsErrors ==
    SelectSeq(scanErrors,
              LAMBDA e : \E n \in {"binary literal", "octal literal",
                                   "hexadecimal literal", "decimal literal"} :
                           e.Msg = Chars(n \o " has no digits"))

\* C26: scanning a number reports "<name> has no digits" exactly when one
\* of the prefixes 0b, 0B, 0o, 0O, 0x, 0X is followed by no digit of the
\* body, once and with the name of the prefix; it is never reported for a
\* literal without such a prefix.
C26_NoDigits ==
    (Scanned /\ out.tok \in {"Int", "Float"}) =>
        IF hasBasePrefix(out.lit) /\ noBodyDigit(out.lit)
        THEN noDigitsErrors
               = <<[Pos |-> noDigitsErrors[1].Pos,
                    Msg |-> Chars(prefixName(out.lit) \o " has no digits")]>>
        ELSE noDigitsErrors = <<>>

(***************************************************************************)
(* The extent of a node: the methods Pos and End of the nodes the parser   *)
(* makes.                                                                  *)
(***************************************************************************)

\* Node.Pos()
RECURSIVE Pos(_)
Pos(n) ==
    CASE n.kind = "BadExpr" -> n.From
      [] n.kind = "Ident" -> n.NamePos
      [] n.kind = "BasicLit" -> n.ValuePos
      [] n.kind = "SelectorExpr" -> Pos(n.X)
      [] n.kind = "FuncType" ->
           IF n.Func # NoPos \/ n.Params = Nil THEN n.Func ELSE Pos(n.Params)
      [] n.kind = "Field" ->
           IF Len(n.Names) > 0 THEN Pos(n.Names[1])
           ELSE IF n.Type # Nil THEN Pos(n.Type)
           ELSE NoPos
      [] n.kind = "FieldList" ->
           IF n.Opening # NoPos THEN n.Opening
           ELSE IF Len(n.List) > 0 THEN Pos(n.List[1])
           ELSE NoPos
      [] n.kind = "BlockStmt" -> n.LeftBrace
      [] n.kind = "BadDecl" -> n.From
      [] n.kind \in {"ConstDecl", "StructDecl", "TypedefDecl", "VarDecl"} ->
           Pos(n.Name)
      [] n.kind = "FuncDecl" -> Pos(n.Type)
      [] n.kind = "ImportDecl" ->
           IF n.Name # Nil THEN Pos(n.Name) ELSE Pos(n.Path)

\* Node.End()
RECURSIVE End(_)
End(n) ==
    CASE n.kind = "BadExpr" -> n.To
      [] n.kind = "Ident" -> n.NamePos + Len(n.Name)
      [] n.kind = "BasicLit" -> n.ValuePos + Len(n.Value)
      [] n.kind = "SelectorExpr" -> End(n.Sel)
      [] n.kind = "FuncType" ->
           IF n.Results # Nil THEN End(n.Results) ELSE End(n.Params)
      [] n.kind = "Field" ->
           IF n.Type # Nil THEN End(n.Type)
           ELSE IF Len(n.Names) > 0 THEN End(n.Names[Len(n.Names)])
           ELSE NoPos
      [] n.kind = "FieldList" ->
           IF n.Closing # NoPos THEN n.Closing + 1
           ELSE IF Len(n.List) > 0 THEN End(n.List[Len(n.List)])
           ELSE NoPos
      [] n.kind = "BlockStmt" ->
           IF n.RightBrace # NoPos THEN n.RightBrace + 1
           ELSE IF Len(n.List) > 0 THEN End(n.List[Len(n.List)])
           ELSE n.LeftBrace + 1
      [] n.kind = "BadDecl" -> n.To
      [] n.kind \in {"ConstDecl", "VarDecl"} -> End(n.Value)
      [] n.kind = "FuncDecl" ->
           IF n.Body # Nil THEN End(n.Body) ELSE End(n.Type)
      [] n.kind = "ImportDecl" ->
           IF n.EndPos # NoPos THEN n.EndPos ELSE End(n.Path)
      [] n.kind = "StructDecl" -> End(n.Fields)
      [] n.kind = "TypedefDecl" -> End(n.Type)

\* C27: for every declaration of the File that parseFile returns, Pos() is
\* the position of the first byte of the declaration and End() the position
\* after its last byte, so that Pos() <= End() and both lie within
\* FileStart and FileEnd.
C27_DeclExtent ==
    parsed =>
        \A i \in 1..Len(ps.f.Decls) :
            /\ Pos(ps.f.Decls[i]) <= End(ps.f.Decls[i])
            /\ ps.f.FileStart <= Pos(ps.f.Decls[i])
            /\ End(ps.f.Decls[i]) <= ps.f.FileEnd

\* C28: over the calls of Scan of one lexer, every position returned lies
\* between the base of the file and its base plus its size, the positions
\* never decrease, and they increase from one token to the next when
\* neither is EOF, the comment and the semicolon put off after it included.
C28_PositionsAscend ==
    Scanned =>
        /\ lx.file.base <= out.pos
        /\ out.pos <= lx.file.base + lx.file.size
        /\ out.prev # "none" =>
             /\ out.prevPos <= out.pos
             /\ (out.prev # "EOF" /\ out.tok # "EOF") => out.prevPos < out.pos

\* The semicolon put off after a comment was returned, behind the comment.
C28_Witness ==
    /\ Scanned
    /\ out.prev = "Comment"
    /\ out.nlPos # NoPos
    /\ out.tok = "Semicolon"
    /\ out.pos = out.nlPos
    /\ out.prevPos < out.pos

\* The whole text was scanned: the last result of trace is EOF.
scannedAll == trace # <<>> /\ Last(trace).tok = "EOF"

\* C29: when Scan returns a token at a position, or the error handler is
\* called for an offset, the line table holds every start of a line at or
\* before that offset already, so that the line and column decoded then are
\* those decoded for the same position after the whole file was scanned.
C29_LinesKnown ==
    scannedAll =>
        /\ \A i \in 1..Len(trace) :
             /\ trace[i].at = FilePosition(lx.file, trace[i].pos)
             /\ \A k \in (trace[i].lines + 1)..Len(lx.file.lines) :
                  lx.file.lines[k] > trace[i].pos - lx.file.base
        /\ \A j \in 1..Len(lx.errs) :
             lx.errs[j].Pos
               = FilePosition(lx.file, lx.file.base + lx.errs[j].Pos.Offset)

\* A text of more than one line was scanned with an error after its first
\* line, and the line table grew after the first token was returned.
C29_Witness ==
    /\ scannedAll
    /\ trace[1].lines < Len(lx.file.lines)
    /\ \E j \in 1..Len(lx.errs) : lx.errs[j].Pos.Line > 1
    /\ \E i \in 1..Len(trace) : trace[i].at.Line > 1 /\ trace[i].at.Column > 1

\* C30: when the current token is one of the keywords any, bool and void,
\* tryIdentOrType consumes exactly that token and returns an identifier
\* whose Name is the text of that keyword, as "bool" for the type of
\* "var a bool = empty;".
C30_TypeKeyword ==
    (/\ ps.pc = "ready"
     /\ ps.call.op = "tryIdentOrType"
     /\ ps.call.before.tok \in {"Any", "Bool", "Void"}) =>
        /\ consumedOne
        /\ ps.call.node.kind = "Ident"
        /\ ps.call.node.Name = ps.call.before.lit
        /\ ps.call.node.Name = TokenString(ps.call.before.tok)

=============================================================================
